---------------------------- MODULE Spec2Model ----------------------------
(***************************************************************************)
(* pihole-toggle: the session cache, the per-instance operations           *)
(* (authenticate, getInstanceStatus, setInstanceBlocking) and the fan-out  *)
(* over all configured instances (getAllStatus, setAllBlocking).           *)
(*                                                                         *)
(* JavaScript values: null is the empty sequence Null; a boolean or a      *)
(* number that may be null is wrapped in a one-element sequence; objects   *)
(* are records (a missing property is a missing field); a template-literal *)
(* string is the sequence of its chunks.                                   *)
(*                                                                         *)
(* One action is one turn of the event loop: the arrival of a response (or *)
(* of a transport error) together with the continuation it resumes, up to  *)
(* the next network call.  The session cache is only touched inside such   *)
(* turns.                                                                  *)
(***************************************************************************)
EXTENDS Integers, Sequences, FiniteSets, TLC

VARIABLES INSTANCES, sessionCache, now, calls, appliance, chain, http, ui

vars == <<INSTANCES, sessionCache, now, calls, appliance, chain, http, ui>>

(***************************************************************************)
(* Bounds of the model.                                                    *)
(***************************************************************************)
MaxInstances == 2
MaxCalls == 2
MaxTasks == 2
MaxClockS == 31
MaxRequests == 2
MaxActions == 1

(***************************************************************************)
(* Program constants.                                                      *)
(***************************************************************************)
MAX_REDIRECTS == 5
MAX_DISABLE_MINUTES == 43200
SESSION_BUFFER_MS == 30000
DEFAULT_VALIDITY_S == 300

Null == <<>>
EmptyObject == <<>>

Has(obj, f) == obj # Null /\ f \in DOMAIN obj

(***************************************************************************)
(* Configuration: the first n of these, in this order.                     *)
(***************************************************************************)
AllInstances ==
  << [name |-> "Primary", url |-> "https://pihole1.local", password |-> "pw1"],
     [name |-> "Secondary", url |-> "https://pihole2.local", password |-> "pw2"],
     [name |-> "Backup", url |-> "https://pihole3.local", password |-> "pw3"] >>

getInstances(n) == SubSeq(AllInstances, 1, n)

N == Len(INSTANCES)
Idx == 1..N
CallIds == 1..MaxCalls


(***************************************************************************)
(* The appliance's answers (request() resolves with {status, data}; data   *)
(* is the parsed JSON body).  The appliance is not part of the program:    *)
(* every answer below may come back to any request, in any order.          *)
(***************************************************************************)
Response(status, data) == [status |-> status, data |-> data]

Unauthorized == [error |-> "unauthorized"]
ServerError == [error |-> "internal_error"]

\* The credential the appliance issues to the login of attempt att of task
\* (c, i): every login gets a credential of its own.
IssuedSid(c, i, att) == <<"sid", i, c, att>>
IssuedCsrf(c, i, att) == <<"csrf", i, c, att>>

\* What an appliance puts in the session of a login it accepts: a validity of
\* 60 s; no validity; a validity of 0; no sid.
Appliances == {"validity", "novalidity", "zerovalidity", "nosid"}

AcceptedSession(kind, c, i, att) ==
  IF kind \in {"validity", "negativetimer"}
    THEN [valid |-> TRUE, sid |-> IssuedSid(c, i, att), csrf |-> IssuedCsrf(c, i, att),
          validity |-> 60]
  ELSE IF kind = "novalidity"
    THEN [valid |-> TRUE, sid |-> IssuedSid(c, i, att), csrf |-> IssuedCsrf(c, i, att)]
  ELSE IF kind = "zerovalidity"
    THEN [valid |-> TRUE, sid |-> IssuedSid(c, i, att), csrf |-> IssuedCsrf(c, i, att),
          validity |-> 0]
  ELSE [valid |-> TRUE, csrf |-> IssuedCsrf(c, i, att), validity |-> 60]

LoginResponses(c, i, att) ==
  { Response(200, [session |-> AcceptedSession(appliance, c, i, att)]),
    Response(401, [session |-> [valid |-> FALSE]]) }

\* An appliance of the kind "negativetimer" may also report a timer that has
\* run past its end.
BlockingResponses ==
  { Response(200, [blocking |-> "enabled"]),
    Response(200, [blocking |-> "disabled", timer |-> 1800]),
    Response(200, Null),
    Response(401, Unauthorized),
    Response(500, ServerError) }
    \cup (IF appliance = "negativetimer"
            THEN { Response(200, [blocking |-> "disabled", timer |-> -1]) }
            ELSE {})

StatsResponses ==
  { Response(200, [queries |-> [total |-> 12500, blocked |-> 3200, percent_blocked |-> 25]]),
    Response(401, Unauthorized) }

\* The appliance echoes the state it was asked to set.
Echo(body) ==
  IF body.blocking
    THEN [blocking |-> "enabled"]
    ELSE IF Has(body, "timer")
           THEN [blocking |-> "disabled", timer |-> body.timer]
           ELSE [blocking |-> "disabled"]

WriteResponses(body) ==
  { Response(200, Echo(body)),
    Response(200, Null),
    Response(401, Unauthorized),
    Response(500, ServerError) }

\* What a request rejects with: req.on('error', reject), and the timeout's
\* req.destroy(new Error('Request timeout')).
TransportErrors == { <<"Request timeout">> }

\* The calls handleRequest makes: setAllBlocking(true) and
\* setAllBlocking(false, minutes * 60).
SetArguments == { [enabled |-> TRUE, timerSeconds |-> Null],
              [enabled |-> FALSE, timerSeconds |-> <<1800>>] }

(***************************************************************************)
(* The session cache: a Map keyed by instance URL.                         *)
(***************************************************************************)
\* Mutant of sessionCacheDelete: sessionCache.clear(), every entry goes.
sessionCacheClear(cache, key) == <<>>

\* Mutant of sessionCacheDelete: the entry is left in the cache.
sessionCacheKeeps(cache, key) == cache

\* Mutant of sessionCacheDelete: the failure is remembered, as an entry with
\* no session that outlives the run (a negative cache).
sessionCacheMarkFailed(cache, key) ==
  [k \in DOMAIN cache \cup {key} |->
     IF k = key
       THEN [session |-> Null, expiresAt |-> (MaxClockS + 1) * 1000 + SESSION_BUFFER_MS,
             storedAt |-> 0, validity |-> Null]
       ELSE cache[k]]

\* sessionCache.delete(key)
sessionCacheDelete(cache, key) == [k \in DOMAIN cache \ {key} |-> cache[k]]

\* Mutant of sessionCacheSet: an entry that is there is not overwritten.
sessionCacheSetIfAbsent(cache, key, entry) ==
  [k \in DOMAIN cache \cup {key} |-> IF k \in DOMAIN cache THEN cache[k] ELSE entry]

\* sessionCache.set(key, entry)
sessionCacheSet(cache, key, entry) ==
  [k \in DOMAIN cache \cup {key} |-> IF k = key THEN entry ELSE cache[k]]

\* Mutant of CacheValid: the safety buffer is left out.
CacheValidUnbuffered(cache, t, instance) ==
  /\ instance.url \in DOMAIN cache
  /\ t < cache[instance.url].expiresAt

\* authenticate: cached && Date.now() < cached.expiresAt - SESSION_BUFFER_MS
CacheValid(cache, t, instance) ==
  /\ instance.url \in DOMAIN cache
  /\ t < cache[instance.url].expiresAt - SESSION_BUFFER_MS

\* authenticate: !(res.status !== 200 || !res.data?.session?.valid)
LoginAccepted(res) ==
  /\ res.status = 200
  /\ Has(res.data, "session")
  /\ Has(res.data.session, "valid")
  /\ res.data.session.valid

\* Mutant of ValidityMs: the seconds are not converted to milliseconds.
ValiditySeconds(session) ==
  IF Has(session, "validity") /\ session.validity # 0
    THEN session.validity
    ELSE DEFAULT_VALIDITY_S

\* authenticate: (res.data.session.validity || 300) * 1000
ValidityMs(session) ==
  (IF Has(session, "validity") /\ session.validity # 0
     THEN session.validity
     ELSE DEFAULT_VALIDITY_S) * 1000

\* A property that may be missing (undefined is Null here).
Prop(obj, f) == IF Has(obj, f) THEN obj[f] ELSE Null

\* authenticate: the session object it caches and returns.
SessionOf(res) ==
  [sid |-> Prop(res.data.session, "sid"), csrf |-> Prop(res.data.session, "csrf")]

\* authenticate: the entry it stores.  History, not in the program's entry:
\* storedAt, when it was stored, and validity, the validity the login
\* reported (Null: none).
CacheEntry(res, t) ==
  [session |-> SessionOf(res), expiresAt |-> t + ValidityMs(res.data.session),
   storedAt |-> t,
   validity |-> IF Has(res.data.session, "validity")
                  THEN <<res.data.session.validity>> ELSE Null]

AuthError(instance) == <<"Authentication failed for ", instance.name>>

TypeError == <<"Cannot read properties of null">>

(***************************************************************************)
(* Results of the per-instance operations.                                 *)
(***************************************************************************)
Fulfilled(value) == [state |-> "fulfilled", value |-> value]
Rejected(reason) == [state |-> "rejected", reason |-> reason]

\* x || 0 for a numeric property of an object
OrZero(obj, f) == IF Has(obj, f) THEN obj[f] ELSE 0

\* getInstanceStatus: the object returned after the reads.
OkStatus(instance, blockingRes, statsRes) ==
  LET stats == IF Has(statsRes.data, "queries") THEN statsRes.data.queries ELSE EmptyObject
  IN [ name |-> instance.name,
       url |-> instance.url,
       blocking |-> << Has(blockingRes.data, "blocking") /\ blockingRes.data.blocking = "enabled" >>,
       timer |-> OrZero(blockingRes.data, "timer"),
       totalQueries |-> OrZero(stats, "total"),
       blockedQueries |-> OrZero(stats, "blocked"),
       percentBlocked |-> OrZero(stats, "percent_blocked"),
       error |-> Null ]

\* getInstanceStatus: the object returned by its catch block.
ErrorStatus(instance, message) ==
  [ name |-> instance.name,
    url |-> instance.url,
    blocking |-> Null,
    timer |-> 0,
    totalQueries |-> 0,
    blockedQueries |-> 0,
    percentBlocked |-> 0,
    error |-> message ]

\* Mutant of StatusCatch: no catch block, the exception leaves the function.
StatusCatchRethrows(instance, message) == [state |-> "rejected", reason |-> message]

\* getInstanceStatus: try { ... } catch (err) { return {...} }
StatusCatch(instance, message) == Fulfilled(ErrorStatus(instance, message))

\* JSON.stringify of a body
JSONStringify(data) ==
  IF data = Null THEN "null"
  ELSE IF Has(data, "error") THEN "{\"error\":\"" \o data.error \o "\"}"
  ELSE IF Has(data, "timer") THEN "{\"blocking\":\"" \o data.blocking \o "\",\"timer\":" \o ToString(data.timer) \o "}"
  ELSE "{\"blocking\":\"" \o data.blocking \o "\"}"

\* Mutant of SetBlockingError: the message does not name the instance.
SetBlockingErrorUnnamed(instance, res) ==
  <<"Failed to set blocking: ", JSONStringify(res.data)>>

\* setInstanceBlocking: the error thrown on a status other than 200.
SetBlockingError(instance, res) ==
  <<"Failed to set blocking on ", instance.name, ": ", JSONStringify(res.data)>>

\* Mutant of ActionValue: the state is compared with 'true', not 'enabled'.
ActionValueComparesTrue(instance, res) ==
  [ name |-> instance.name,
    blocking |-> << Has(res.data, "blocking") /\ res.data.blocking = "true" >>,
    timer |-> OrZero(res.data, "timer") ]

\* setInstanceBlocking: the object returned after the write.
ActionValue(instance, res) ==
  [ name |-> instance.name,
    blocking |-> << Has(res.data, "blocking") /\ res.data.blocking = "enabled" >>,
    timer |-> OrZero(res.data, "timer") ]

\* setInstanceBlocking: !enabled && timerSeconds
TimerGiven(enabled, timerSeconds) ==
  ~enabled /\ timerSeconds # Null /\ timerSeconds[1] # 0

\* Mutant of WriteBody: the timer is always part of the body.
WriteBodyAlwaysTimer(enabled, timerSeconds) ==
  [blocking |-> enabled, timer |-> IF timerSeconds = Null THEN 0 ELSE timerSeconds[1]]

\* Mutant of WriteBody: the timer is left out of the body.
WriteBodyNoTimer(enabled, timerSeconds) == [blocking |-> enabled]

\* setInstanceBlocking: the body of the write.
WriteBody(enabled, timerSeconds) ==
  IF TimerGiven(enabled, timerSeconds)
    THEN [blocking |-> enabled, timer |-> timerSeconds[1]]
    ELSE [blocking |-> enabled]

(***************************************************************************)
(* One per-instance operation (a getInstanceStatus or setInstanceBlocking  *)
(* invocation, its retry included).                                        *)
(*   pc         "login": the login POST is in flight; "reads": the two     *)
(*              GETs are; "write": the POST of the state is; "done"        *)
(*   retry      the retry parameter of the running attempt                 *)
(*   session    the credential authenticate returned to this attempt       *)
(*   b, s, w    the answers to the blocking read, the stats read and the   *)
(*              write of the latest attempt (Null: none yet)               *)
(*   logins, rounds   login POSTs and rounds of reads (or writes) issued   *)
(*   usedCached the first attempt got its credential from the cache        *)
(*   login      the latest accepted login: when it was answered and the    *)
(*              validity (seconds) the answer reported (Null: none)        *)
(*   fault      what threw, if anything: "auth", "transport", "type",      *)
(*              "status"                                                   *)
(*   out        how the invocation settled (Null: it has not)              *)
(***************************************************************************)
NewTask ==
  [ pc |-> "new", retry |-> TRUE, session |-> Null, b |-> Null, s |-> Null, w |-> Null,
    logins |-> 0, rounds |-> 0, usedCached |-> FALSE, login |-> Null,
    fault |-> "none", out |-> Null ]

\* After authenticate has returned: the reads (or the write) are issued.
IssueRequests(kind, task, session) ==
  [ task EXCEPT !.pc = IF kind = "status" THEN "reads" ELSE "write",
                !.session = session,
                !.b = Null, !.s = Null, !.w = Null,
                !.rounds = @ + 1 ]

\* The start of an attempt, up to its first network call: authenticate
\* returns the cached session, or posts the login.
BeginAttempt(kind, task, cache, t, instance) ==
  IF CacheValid(cache, t, instance)
    THEN IssueRequests(kind,
                       [task EXCEPT !.usedCached = IF task.retry THEN TRUE ELSE @],
                       cache[instance.url].session)
    ELSE [ task EXCEPT !.pc = "login", !.session = Null,
                       !.b = Null, !.s = Null, !.w = Null,
                       !.logins = @ + 1 ]

\* An exception inside the operation: getInstanceStatus catches it,
\* setInstanceBlocking lets it out.
Throw(kind, task, instance, message, fault) ==
  [ task EXCEPT !.pc = "done", !.fault = fault,
                !.out = IF kind = "status"
                          THEN StatusCatch(instance, message)
                          ELSE Rejected(message) ]

Return(task, value) == [task EXCEPT !.pc = "done", !.out = Fulfilled(value)]

Settled(task) == task.out # Null
IsFulfilled(task) == Settled(task) /\ task.out.state = "fulfilled"
IsRejected(task) == Settled(task) /\ task.out.state = "rejected"

(***************************************************************************)
(* The fan-out.                                                            *)
(***************************************************************************)
\* Mutant of PromiseAll: the values are collected as the promises settle
\* (results.push in each continuation), not by position.
PromiseAllInCompletionOrder(call) ==
  IF \A i \in DOMAIN call.tasks : IsFulfilled(call.tasks[i])
    THEN [call EXCEPT !.state = "returned",
                      !.result = [k \in DOMAIN call.tasks |->
                                    call.tasks[call.order[k]].out.value]]
    ELSE call

\* Promise.all over the per-instance promises.
PromiseAll(call) ==
  IF \E i \in DOMAIN call.tasks : IsRejected(call.tasks[i])
    THEN [call EXCEPT !.state = "rejected",
                      !.result = call.tasks[CHOOSE i \in DOMAIN call.tasks :
                                                 IsRejected(call.tasks[i])].out.reason]
  ELSE IF \A i \in DOMAIN call.tasks : IsFulfilled(call.tasks[i])
    THEN [call EXCEPT !.state = "returned",
                      !.result = [i \in DOMAIN call.tasks |-> call.tasks[i].out.value]]
  ELSE call

\* setAllBlocking: results.map((result, i) => ...)
ActionEntry(instances, i, result) ==
  IF result.state = "fulfilled"
    THEN [ name |-> result.value.name, blocking |-> result.value.blocking,
           timer |-> result.value.timer, error |-> Null ]
    ELSE [ name |-> instances[i].name, blocking |-> Null, timer |-> 0,
           error |-> result.reason ]

\* Mutant of PromiseAllSettled: Promise.all in its place, which rejects with
\* the first rejection.
PromiseAllSettledFailsFast(call, instances) ==
  IF \E i \in DOMAIN call.tasks : IsRejected(call.tasks[i])
    THEN [call EXCEPT !.state = "rejected",
                      !.result = call.tasks[CHOOSE i \in DOMAIN call.tasks :
                                                 IsRejected(call.tasks[i])].out.reason]
  ELSE IF \A i \in DOMAIN call.tasks : IsFulfilled(call.tasks[i])
    THEN [call EXCEPT !.state = "returned",
                      !.result = [i \in DOMAIN call.tasks |->
                                    ActionEntry(instances, i, call.tasks[i].out)]]
  ELSE call

\* Mutant of PromiseAllSettled: the aggregate waits until every operation has
\* fulfilled, so an instance that fails or times out holds it back for good.
PromiseAllSettledAwaitsSuccess(call, instances) ==
  IF \A i \in DOMAIN call.tasks : IsFulfilled(call.tasks[i])
    THEN [call EXCEPT !.state = "returned",
                      !.result = [i \in DOMAIN call.tasks |->
                                    ActionEntry(instances, i, call.tasks[i].out)]]
    ELSE call

\* Promise.allSettled over the per-instance promises, then the map.
PromiseAllSettled(call, instances) ==
  IF \A i \in DOMAIN call.tasks : Settled(call.tasks[i])
    THEN [call EXCEPT !.state = "returned",
                      !.result = [i \in DOMAIN call.tasks |->
                                    ActionEntry(instances, i, call.tasks[i].out)]]
    ELSE call

\* getAllStatus / setAllBlocking: the await on the gathered promises.
Gather(call, instances) ==
  IF call.state # "running" THEN call
  ELSE IF call.kind = "status" THEN PromiseAll(call)
  ELSE PromiseAllSettled(call, instances)

\* A call: its arguments, its per-instance operations, and how it ended
\* (state "returned" with result the list, or "rejected" with the reason).
\* History: order lists the operations in the order they settled, after the
\* calls that had ended when this one was made, startedAt when it was made.
IdleCall ==
  [ kind |-> "none", enabled |-> FALSE, timerSeconds |-> Null, tasks |-> <<>>,
    state |-> "idle", result |-> <<>>, order |-> <<>>, after |-> {}, startedAt |-> 0 ]

(***************************************************************************)
(* request(): one call and the calls it makes of itself for the redirects. *)
(*   state          "idle", "pending" (an outbound request is in flight),  *)
(*                  "resolved", "rejected"                                 *)
(*   url            the URL of the outbound request                        *)
(*   redirectCount  the parameter of the running request() call           *)
(*   outbound       outbound requests issued so far                        *)
(*   followed       history: the statuses of the redirects followed        *)
(*   result         what the promise resolved or rejected with             *)
(***************************************************************************)
Url(origin, path) == [origin |-> origin, path |-> path]

RequestUrls == { Url("https://pihole1.local", "/api/auth"),
                 Url("http://pihole2.local", "/api/dns/blocking") }

\* Location headers: a path on the same host, an absolute URL, none ("").
Locations == { Url("", "/admin/api"), Url("https://pihole.example", "/api"), Url("", "") }

\* new URL(location, url)
ResolveUrl(location, url) ==
  IF location.origin = "" THEN Url(url.origin, location.path) ELSE location

RedirectStatuses == {301, 302, 307, 308}

\* What the server answers: a status, a Location header, a body (parsed).
ChainAnswers ==
  { [status |-> st, location |-> loc, data |-> Null] :
      st \in RedirectStatuses \cup {303}, loc \in Locations }
  \cup { [status |-> 200, location |-> Url("", ""), data |-> [blocking |-> "enabled"]],
         [status |-> 401, location |-> Url("", ""), data |-> Unauthorized] }

\* authenticate: JSON.stringify({ password: instance.password })
LoginBody(instance) == [password |-> instance.password]

\* The arguments the callers pass with the URL.  authenticate: method POST,
\* a Content-Type header and the password as the body; the reads and the
\* write: the session in the X-FTL-SID (the write: and X-FTL-CSRF) headers.
RequestOptions(url) ==
  IF url.path = "/api/auth"
    THEN [method |-> "POST", headers |-> [ContentType |-> "application/json"]]
    ELSE [method |-> "GET", headers |-> [XFTLSID |-> IssuedSid(1, 2, 1)]]

RequestBody(url) ==
  IF url.path = "/api/auth" THEN LoginBody(AllInstances[1]) ELSE Null

\* The request() call being followed: the URL, options and body of the
\* outbound request.  History: base, the origin of the URL the caller
\* passed (the instance's configured URL); outbound, the requests sent;
\* followed, the redirect statuses followed.
IdleChain ==
  [ state |-> "idle", url |-> Url("", ""), redirectCount |-> 0, outbound |-> 0,
    followed |-> <<>>, result |-> Null, base |-> "", options |-> Null, body |-> Null ]

\* Mutant of TooManyRedirects: one redirect fewer is allowed.
TooManyRedirectsEarly(redirectCount) == redirectCount >= MAX_REDIRECTS

\* request: redirectCount > MAX_REDIRECTS
TooManyRedirects(redirectCount) == redirectCount > MAX_REDIRECTS

\* request(url, options, body, redirectCount), up to req.end().
request(ch, url, redirectCount) ==
  IF TooManyRedirects(redirectCount)
    THEN [ch EXCEPT !.state = "rejected", !.redirectCount = redirectCount,
                    !.result = <<"Too many redirects">>]
    ELSE [ch EXCEPT !.state = "pending", !.url = url, !.redirectCount = redirectCount,
                    !.outbound = @ + 1]

\* request: [301, 302, 307, 308].includes(res.statusCode) && res.headers.location
IsRedirect(ans) == ans.status \in RedirectStatuses /\ ans.location # Url("", "")

(***************************************************************************)
(* handleRequest: the HTTP request being handled.                          *)
(*   state     "idle", "pending" (awaiting the fan-out), "answered"        *)
(*   request   {method, path}; a path is a prefix and the characters that  *)
(*             follow it                                                   *)
(*   call      the getAllStatus / setAllBlocking call it made (0: none)    *)
(*   response  what was written to res (Null: nothing yet)                 *)
(*   served    requests answered so far                                    *)
(***************************************************************************)
IdleHttp ==
  [ state |-> "idle", request |-> Null, call |-> 0, response |-> Null, served |-> 0 ]

(***************************************************************************)
(* The page's script.                                                      *)
(*   instancesData  the last status applied by updateUI                    *)
(*   enableBtn      enableBtn.style.display                                *)
(*   durationLabel  durationLabel.textContent                              *)
(*   error          the message showError is displaying (Null: none)       *)
(*   poll           a fetch of /api/status is in flight                    *)
(*   action         the action request in flight (Null: none; the buttons  *)
(*                  are disabled while there is one)                       *)
(*   last           history: the last action, the response it got and the  *)
(*                  message showError was called with for it               *)
(*   actions        history: the clicks on the action buttons so far       *)
(*   polled         history: the clicks made when the fetch of /api/status *)
(*                  in flight was issued                                   *)
(***************************************************************************)
PageLoaded ==
  [ instancesData |-> <<>>, enableBtn |-> "none", durationLabel |-> "Disable all for:",
    error |-> Null, poll |-> FALSE, action |-> Null, last |-> Null, actions |-> 0,
    polled |-> 0 ]

(***************************************************************************)
(* State.                                                                  *)
(*   INSTANCES     the configured instances, in configuration order        *)
(*   sessionCache  instance URL -> {session, expiresAt}                    *)
(*   now           Date.now()                                              *)
(*   calls         the getAllStatus / setAllBlocking calls made so far     *)
(*   appliance     the kind of appliance the instances are                 *)
(*   chain         the request() call being followed                       *)
(*   http          the HTTP request being handled                          *)
(*   ui            the page in the browser                                 *)
(***************************************************************************)
Init ==
  /\ INSTANCES \in { getInstances(n) : n \in 0..MaxInstances }
  /\ sessionCache = <<>>
  /\ now = 0
  /\ calls = [c \in CallIds |-> IdleCall]
  /\ appliance = "validity"
  /\ chain = IdleChain
  /\ http = IdleHttp
  /\ ui = PageLoaded

\* Calls are numbered in the order they are made; a run holds at most
\* MaxTasks per-instance operations (calls may overlap).
MayStart(c) ==
  /\ calls[c].state = "idle"
  /\ \A d \in CallIds : d < c => calls[d].state # "idle"
  /\ c * N <= MaxTasks

Ended(c) == calls[c].state \in {"returned", "rejected"}

\* Mutant of Launch: the operations are awaited one after the other (a for
\* loop with await), so only the first one is started by the call.
LaunchOneAtATime(call) ==
  Gather([call EXCEPT !.state = "running",
                      !.after = {d \in CallIds : Ended(d)},
                      !.startedAt = now,
                      !.tasks = [i \in Idx |->
                                   IF i = 1
                                     THEN BeginAttempt(call.kind, NewTask, sessionCache, now,
                                                       INSTANCES[i])
                                     ELSE NewTask]],
         INSTANCES)

\* INSTANCES.map(inst => ...): every per-instance operation starts, and
\* runs up to its first network call, before the call waits for any.
Launch(call) ==
  Gather([call EXCEPT !.state = "running",
                      !.after = {d \in CallIds : Ended(d)},
                      !.startedAt = now,
                      !.tasks = [i \in Idx |->
                                   BeginAttempt(call.kind, NewTask, sessionCache, now,
                                                INSTANCES[i])]],
         INSTANCES)

\* getAllStatus(): every getInstanceStatus starts, in configuration order.
GetAllStatus(c) ==
  /\ MayStart(c)
  /\ calls' = [calls EXCEPT ![c] = Launch([IdleCall EXCEPT !.kind = "status"])]
  /\ UNCHANGED <<http, ui, appliance, chain, INSTANCES, sessionCache, now>>

\* setAllBlocking(enabled, timerSeconds): every setInstanceBlocking starts.
SetAllBlocking(c, enabled, timerSeconds) ==
  /\ MayStart(c)
  /\ calls' = [calls EXCEPT ![c] =
                 Launch([IdleCall EXCEPT !.kind = "set", !.enabled = enabled,
                                         !.timerSeconds = timerSeconds])]
  /\ UNCHANGED <<http, ui, appliance, chain, INSTANCES, sessionCache, now>>

\* The call with task i replaced, gathered if that settled it.
WithTask(c, i, task) ==
  [calls EXCEPT ![c] =
     Gather([calls[c] EXCEPT !.tasks[i] = task,
                             !.order = IF task.out # Null THEN Append(@, i) ELSE @],
            INSTANCES)]

Running(c, i, pc) ==
  /\ calls[c].kind # "none"
  /\ i \in DOMAIN calls[c].tasks
  /\ calls[c].tasks[i].pc = pc

Attempt(task) == IF task.retry THEN 1 ELSE 2

\* authenticate, after the login POST has answered.
LoginResponse(c, i) ==
  /\ Running(c, i, "login")
  /\ LET call == calls[c]
         task == call.tasks[i]
         instance == INSTANCES[i]
     IN \E res \in LoginResponses(c, i, Attempt(task)) :
          IF LoginAccepted(res)
            THEN /\ sessionCache' = sessionCacheSet(sessionCache, instance.url,
                                                    CacheEntry(res, now))
                 /\ calls' = WithTask(c, i,
                      IssueRequests(call.kind,
                                    [task EXCEPT !.login =
                                       [at |-> now,
                                        validity |-> OrZero(res.data.session, "validity")]],
                                    SessionOf(res)))
            ELSE /\ sessionCache' = sessionCacheDelete(sessionCache, instance.url)
                 /\ calls' = WithTask(c, i, Throw(call.kind, task, instance,
                                                  AuthError(instance), "auth"))
  /\ UNCHANGED <<http, ui, appliance, chain, INSTANCES, now>>

\* The login POST rejects: authenticate throws what request() rejected with.
LoginError(c, i, err) ==
  LET call == calls[c] IN
  /\ Running(c, i, "login")
  /\ calls' = WithTask(c, i, Throw(call.kind, call.tasks[i], INSTANCES[i], err, "transport"))
  /\ UNCHANGED <<http, ui, appliance, chain, INSTANCES, sessionCache, now>>

\* Mutant of ShouldRetry: the retry flag is not looked at.
ShouldRetryAgain(res, retry) == res.status = 401

\* res.status === 401 && retry
ShouldRetry(res, retry) == res.status = 401 /\ retry

\* getInstanceStatus, after Promise.all of the two reads has resolved.
AfterReads(c, i, task) ==
  LET instance == INSTANCES[i] IN
  IF ShouldRetry(task.b, task.retry) \/ ShouldRetry(task.s, task.retry)
    THEN LET cache == sessionCacheDelete(sessionCache, instance.url) IN
         /\ sessionCache' = cache
         /\ calls' = WithTask(c, i, BeginAttempt("status", [task EXCEPT !.retry = FALSE],
                                                 cache, now, instance))
    ELSE /\ sessionCache' = sessionCache
         /\ calls' = WithTask(c, i,
                       IF task.b.data = Null
                         THEN Throw("status", task, instance, TypeError, "type")
                         ELSE Return(task, OkStatus(instance, task.b, task.s)))

\* Mutant of ReadResponse: a 401 starts the retry at once, without waiting
\* for the other read (no Promise.all before the test).
ReadResponseEager(c, i, which, res) ==
  LET task == calls[c].tasks[i]
      instance == INSTANCES[i]
      answered == IF which = "blocking" THEN [task EXCEPT !.b = res]
                                        ELSE [task EXCEPT !.s = res]
  IN /\ Running(c, i, "reads")
     /\ \/ which = "blocking" /\ task.b = Null /\ res \in BlockingResponses
        \/ which = "stats" /\ task.s = Null /\ res \in StatsResponses
     /\ IF ShouldRetry(res, task.retry)
          THEN LET cache == sessionCacheDelete(sessionCache, instance.url) IN
               /\ sessionCache' = cache
               /\ calls' = WithTask(c, i, BeginAttempt("status",
                                                       [answered EXCEPT !.retry = FALSE],
                                                       cache, now, instance))
          ELSE IF answered.b = Null \/ answered.s = Null
                 THEN /\ calls' = WithTask(c, i, answered)
                      /\ sessionCache' = sessionCache
                 ELSE AfterReads(c, i, answered)
     /\ UNCHANGED <<http, ui, appliance, chain, INSTANCES, now>>

\* One of the two reads answers; the operation goes on once both have.
ReadResponse(c, i, which, res) ==
  LET task == calls[c].tasks[i] IN
  /\ Running(c, i, "reads")
  /\ \/ /\ which = "blocking" /\ task.b = Null /\ res \in BlockingResponses
        /\ IF task.s = Null
             THEN /\ calls' = WithTask(c, i, [task EXCEPT !.b = res])
                  /\ sessionCache' = sessionCache
             ELSE AfterReads(c, i, [task EXCEPT !.b = res])
     \/ /\ which = "stats" /\ task.s = Null /\ res \in StatsResponses
        /\ IF task.b = Null
             THEN /\ calls' = WithTask(c, i, [task EXCEPT !.s = res])
                  /\ sessionCache' = sessionCache
             ELSE AfterReads(c, i, [task EXCEPT !.s = res])
  /\ UNCHANGED <<http, ui, appliance, chain, INSTANCES, now>>

\* One of the two reads rejects: Promise.all rejects, the catch block runs.
ReadError(c, i, err) ==
  /\ Running(c, i, "reads")
  /\ calls' = WithTask(c, i, Throw("status", calls[c].tasks[i], INSTANCES[i], err, "transport"))
  /\ UNCHANGED <<http, ui, appliance, chain, INSTANCES, sessionCache, now>>

\* setInstanceBlocking, after the write has answered.
WriteResponse(c, i, res) ==
  LET call == calls[c]
      task == [call.tasks[i] EXCEPT !.w = res]
      instance == INSTANCES[i]
  IN /\ Running(c, i, "write")
     /\ res \in WriteResponses(WriteBody(call.enabled, call.timerSeconds))
     /\ IF ShouldRetry(res, task.retry)
          THEN LET cache == sessionCacheDelete(sessionCache, instance.url) IN
               /\ sessionCache' = cache
               /\ calls' = WithTask(c, i, BeginAttempt("set", [task EXCEPT !.retry = FALSE],
                                                       cache, now, instance))
          ELSE /\ sessionCache' = sessionCache
               /\ calls' = WithTask(c, i,
                    IF res.status # 200
                      THEN Throw("set", task, instance, SetBlockingError(instance, res), "status")
                    ELSE IF res.data = Null
                      THEN Throw("set", task, instance, TypeError, "type")
                    ELSE Return(task, ActionValue(instance, res)))
     /\ UNCHANGED <<http, ui, appliance, chain, INSTANCES, now>>

\* The write rejects.
WriteError(c, i, err) ==
  /\ Running(c, i, "write")
  /\ calls' = WithTask(c, i, Throw("set", calls[c].tasks[i], INSTANCES[i], err, "transport"))
  /\ UNCHANGED <<http, ui, appliance, chain, INSTANCES, sessionCache, now>>

\* Time passes.
Tick(ms) ==
  /\ now + ms <= MaxClockS * 1000
  /\ now' = now + ms
  /\ UNCHANGED <<http, ui, appliance, chain, INSTANCES, sessionCache, calls>>

TickMs == {29000, 30000, 31000}

Next ==
  \/ \E c \in CallIds : GetAllStatus(c)
  \/ \E c \in CallIds, args \in SetArguments :
       SetAllBlocking(c, args.enabled, args.timerSeconds)
  \/ \E c \in CallIds, i \in Idx : LoginResponse(c, i)
  \/ \E c \in CallIds, i \in Idx, err \in TransportErrors : LoginError(c, i, err)
  \/ \E c \in CallIds, i \in Idx, which \in {"blocking", "stats"},
        res \in BlockingResponses \cup StatsResponses : ReadResponse(c, i, which, res)
  \/ \E c \in CallIds, i \in Idx, err \in TransportErrors : ReadError(c, i, err)
  \/ \E c \in CallIds, i \in Idx :
       \E res \in WriteResponses(WriteBody(calls[c].enabled, calls[c].timerSeconds)) :
         WriteResponse(c, i, res)
  \/ \E c \in CallIds, i \in Idx, err \in TransportErrors : WriteError(c, i, err)
  \/ \E ms \in TickMs : Tick(ms)

Spec == Init /\ [][Next]_vars

(***************************************************************************)
(* request() on its own: one call, every answer the server may give.       *)
(***************************************************************************)
\* A caller calls request(url, options, body).
StartRequest(url) ==
  /\ chain.state = "idle"
  /\ chain' = request([IdleChain EXCEPT !.base = url.origin,
                                        !.options = RequestOptions(url),
                                        !.body = RequestBody(url)],
                       url, 0)
  /\ UNCHANGED <<http, ui, appliance, INSTANCES, sessionCache, now, calls>>

\* The response callback: a redirect is followed by a request() call with
\* redirectCount + 1, anything else resolves the promise when the body ends.
Answer(ans) ==
  /\ chain.state = "pending"
  /\ chain' = IF IsRedirect(ans)
                THEN request([chain EXCEPT !.followed = Append(@, ans.status)],
                             ResolveUrl(ans.location, chain.url),
                             chain.redirectCount + 1)
                ELSE [chain EXCEPT !.state = "resolved",
                                   !.result = Response(ans.status, ans.data)]
  /\ UNCHANGED <<http, ui, appliance, INSTANCES, sessionCache, now, calls>>

\* req.on('error', reject): the connection fails or the timeout destroys it.
RequestFails(err) ==
  /\ chain.state = "pending"
  /\ chain' = [chain EXCEPT !.state = "rejected", !.result = err]
  /\ UNCHANGED <<http, ui, appliance, INSTANCES, sessionCache, now, calls>>

RequestInit ==
  /\ INSTANCES = getInstances(1)
  /\ sessionCache = <<>>
  /\ now = 0
  /\ calls = [c \in CallIds |-> IdleCall]
  /\ appliance = "validity"
  /\ chain = IdleChain
  /\ http = IdleHttp
  /\ ui = PageLoaded

RequestNext ==
  \/ \E url \in RequestUrls : StartRequest(url)
  \/ \E ans \in ChainAnswers : Answer(ans)
  \/ \E err \in TransportErrors : RequestFails(err)

RequestSpec == RequestInit /\ [][RequestNext]_vars

(***************************************************************************)
(* The session store on its own: one instance, on an appliance of any      *)
(* kind.                                                                   *)
(***************************************************************************)
StoreInit ==
  /\ INSTANCES = getInstances(1)
  /\ sessionCache = <<>>
  /\ now = 0
  /\ calls = [c \in CallIds |-> IdleCall]
  /\ appliance \in Appliances
  /\ chain = IdleChain
  /\ http = IdleHttp
  /\ ui = PageLoaded

StoreSpec == StoreInit /\ [][Next]_vars

(***************************************************************************)
(* Properties.                                                             *)
(***************************************************************************)
Task(c, i) == calls[c].tasks[i]
StatusCalls == {c \in CallIds : calls[c].kind = "status"}
SetCalls == {c \in CallIds : calls[c].kind = "set"}
AllSettled(c) == \A i \in Idx : Settled(Task(c, i))

\* C1: getAllStatus over a configuration of N >= 0 instances returns exactly
\* N entries, and entry i carries the name and the url of instance i of the
\* configuration, whatever order the per-instance fetches settle in.
C1_StatusInInputOrder ==
  \A c \in StatusCalls :
    /\ calls[c].state # "rejected"
    /\ AllSettled(c) => calls[c].state = "returned"
    /\ calls[c].state = "returned" =>
         /\ Len(calls[c].result) = N
         /\ \A i \in Idx : /\ calls[c].result[i].name = INSTANCES[i].name
                           /\ calls[c].result[i].url = INSTANCES[i].url

\* A getAllStatus over two instances has returned, the second instance's
\* fetch having settled before the first's.
C1_Witness ==
  \E c \in StatusCalls :
    /\ calls[c].state = "returned"
    /\ N = 2
    /\ calls[c].order = <<2, 1>>

\* C2: setAllBlocking never rejects and returns one entry per configured
\* instance, in configuration order: the operation's own result with
\* error = null where setInstanceBlocking succeeded, and
\* {name, blocking: null, timer: 0, error: the thrown message} where it threw.
C2_SetAllOneEntryEach ==
  \A c \in SetCalls :
    /\ calls[c].state # "rejected"
    /\ AllSettled(c) => calls[c].state = "returned"
    /\ calls[c].state = "returned" =>
         /\ Len(calls[c].result) = N
         /\ \A i \in Idx :
              LET entry == calls[c].result[i]
                  out == Task(c, i).out
              IN /\ entry.name = INSTANCES[i].name
                 /\ IF out.state = "fulfilled"
                      THEN /\ entry.error = Null
                           /\ entry.blocking = out.value.blocking
                           /\ entry.timer = out.value.timer
                      ELSE /\ entry.error = out.reason
                           /\ entry.error # Null
                           /\ entry.blocking = Null
                           /\ entry.timer = 0

\* A setAllBlocking over two instances has returned with one success and one
\* failure.
C2_Witness ==
  \E c \in SetCalls :
    /\ calls[c].state = "returned"
    /\ N = 2
    /\ IsRejected(Task(c, 1))
    /\ IsFulfilled(Task(c, 2))
    /\ calls[c].result[1].error # Null
    /\ calls[c].result[2].error = Null

\* A step of the per-instance operation (c, i): a request it has in flight
\* is answered or fails.
TaskStep(c, i) ==
  \/ LoginResponse(c, i)
  \/ \E err \in TransportErrors : LoginError(c, i, err)
  \/ \E which \in {"blocking", "stats"}, res \in BlockingResponses \cup StatsResponses :
       ReadResponse(c, i, which, res)
  \/ \E err \in TransportErrors : ReadError(c, i, err)
  \/ \E res \in WriteResponses(WriteBody(calls[c].enabled, calls[c].timerSeconds)) :
       WriteResponse(c, i, res)
  \/ \E err \in TransportErrors : WriteError(c, i, err)

Started == {c \in CallIds : calls[c].kind # "none"}

\* In every state, each unsettled operation of a call can take its next step,
\* whatever the other instances' operations are doing; and an instance's
\* entry in the aggregate is its own operation's result.
C3_NoWaiting ==
  \A c \in Started : \A i \in Idx :
    /\ ~Settled(Task(c, i)) => ENABLED TaskStep(c, i)
    /\ (calls[c].state = "returned" /\ calls[c].kind = "status") =>
         calls[c].result[i] = Task(c, i).out.value
    /\ (calls[c].state = "returned" /\ calls[c].kind = "set" /\ IsFulfilled(Task(c, i))) =>
         /\ calls[c].result[i].error = Null
         /\ Task(c, i).w = Response(200, [blocking |-> "disabled", timer |-> 1800]) =>
              calls[c].result[i] = [ name |-> INSTANCES[i].name, blocking |-> <<FALSE>>,
                                     timer |-> 1800, error |-> Null ]

\* A step of one instance's operation changes no other instance's operation
\* of the same call (nothing is cancelled).
C3_NoCancelling ==
  \A c \in Started : \A i \in Idx : \A j \in Idx \ {i} :
    calls'[c].tasks[i] # calls[c].tasks[i] => calls'[c].tasks[j] = calls[c].tasks[j]

\* C3: in a fan-out, no step of one instance's operation waits for, or is
\* cancelled by, a step of another instance's: it can always run to its end
\* while the other is pending or has failed, and its entry in the aggregate is
\* its own result (setAllBlocking(false, 1800) with A healthy: blocking =
\* false, timer = 1800, error = null).
C3_InstancesIndependent == []C3_NoWaiting /\ [][C3_NoCancelling]_vars

\* setAllBlocking(false, 1800) over A and B has returned; A's write succeeded
\* and settled while B's was still pending, and B's then timed out.
C3_Witness ==
  \E c \in SetCalls :
    /\ calls[c].state = "returned"
    /\ N = 2
    /\ calls[c].order = <<1, 2>>
    /\ calls[c].result[1] = [ name |-> "Primary", blocking |-> <<FALSE>>,
                              timer |-> 1800, error |-> Null ]
    /\ calls[c].result[2] = [ name |-> "Secondary", blocking |-> Null,
                              timer |-> 0, error |-> <<"Request timeout">> ]

\* C4: getInstanceStatus never throws: whatever the login and the reads
\* answer, on the first attempt or on the retry, it resolves to an
\* InstanceStatus carrying the instance's name and url.
C4_StatusNeverThrows ==
  \A c \in StatusCalls : \A i \in Idx :
    /\ Task(c, i).pc = "done" => Settled(Task(c, i))
    /\ Settled(Task(c, i)) =>
         /\ Task(c, i).out.state = "fulfilled"
         /\ Task(c, i).out.value.name = INSTANCES[i].name
         /\ Task(c, i).out.value.url = INSTANCES[i].url
         /\ DOMAIN Task(c, i).out.value =
              { "name", "url", "blocking", "timer", "totalQueries", "blockedQueries",
                "percentBlocked", "error" }

\* A getInstanceStatus has settled after the login of its retry timed out.
C4_Witness ==
  \E c \in StatusCalls : \E i \in Idx :
    /\ Settled(Task(c, i))
    /\ ~Task(c, i).retry
    /\ Task(c, i).pc = "done"
    /\ Task(c, i).session = Null
    /\ Task(c, i).fault = "transport"

\* The underlying calls of a getInstanceStatus failed: something threw (a
\* transport error, a timeout, a failed login), or a read of its last round
\* was answered with a status other than 200.
CallsFailed(task) ==
  \/ task.fault # "none"
  \/ task.b # Null /\ task.b.status # 200
  \/ task.s # Null /\ task.s.status # 200

\* C5: in the list getAllStatus returns, an instance's error is non-null
\* exactly when its underlying calls failed (a status other than 200 that
\* remains after the retry included), and then blocking is null and the
\* metrics are zero.
C5_ErrorIffCallsFailed ==
  \A c \in StatusCalls : \A i \in Idx :
    calls[c].state = "returned" =>
      LET entry == calls[c].result[i] IN
      /\ entry.error # Null <=> CallsFailed(Task(c, i))
      /\ entry.error # Null =>
           /\ entry.blocking = Null
           /\ entry.timer = 0
           /\ entry.totalQueries = 0
           /\ entry.blockedQueries = 0
           /\ entry.percentBlocked = 0

\* C6: a status fetch whose retried round of reads is answered 401 again
\* yields a failed instance: blocking = null and error non-null.
C6_Second401IsFailure ==
  \A c \in StatusCalls : \A i \in Idx :
    LET task == Task(c, i) IN
    ( /\ Settled(task)
      /\ ~task.retry
      /\ task.b # Null /\ task.s # Null
      /\ task.b.status = 401 \/ task.s.status = 401 ) =>
        /\ task.out.value.blocking = Null
        /\ task.out.value.error # Null

C7_AtMostTwoAttempts ==
  \A c \in StatusCalls : \A i \in Idx :
    LET task == Task(c, i) IN
    /\ task.logins <= 2 /\ task.rounds <= 2
    \* a 401 on the first attempt is never the final answer
    /\ (Settled(task) /\ task.retry /\ task.b # Null /\ task.s # Null) =>
         task.b.status # 401 /\ task.s.status # 401
    /\ (task.usedCached /\ ~task.retry) =>
         /\ task.logins = 1
         /\ task.rounds = IF task.login # Null THEN 2 ELSE 1

\* The step that starts the retry deletes the instance's cache entry and
\* posts one login.
C7_RetryStep ==
  \A c \in StatusCalls : \A i \in Idx :
    (calls[c].tasks[i].retry /\ ~calls'[c].tasks[i].retry) =>
      /\ INSTANCES[i].url \notin DOMAIN sessionCache'
      /\ calls'[c].tasks[i].pc = "login"
      /\ calls'[c].tasks[i].logins = calls[c].tasks[i].logins + 1
      /\ calls'[c].tasks[i].rounds = calls[c].tasks[i].rounds

C8_AtMostTwoWrites ==
  \A c \in SetCalls : \A i \in Idx :
    LET task == Task(c, i) IN
    /\ task.logins <= 2 /\ task.rounds <= 2
    \* a 401 to the first write is always retried
    /\ (Settled(task) /\ task.retry /\ task.w # Null) => task.w.status # 401
    \* a 401 to the second write is thrown
    /\ (Settled(task) /\ ~task.retry /\ task.w # Null /\ task.w.status = 401) =>
         /\ IsRejected(task)
         /\ task.out.reason = <<"Failed to set blocking on ", INSTANCES[i].name, ": ",
                                "{\"error\":\"unauthorized\"}">>
    \* the retry is one authenticate and, when it returns, one write
    /\ ~task.retry =>
         /\ task.logins >= 1
         /\ task.rounds = IF task.pc = "login" \/ task.session = Null THEN 1 ELSE 2

\* The step that starts the retry deletes the instance's cache entry and
\* calls authenticate, which posts a login.
C8_RetryStep ==
  \A c \in SetCalls : \A i \in Idx :
    (calls[c].tasks[i].retry /\ ~calls'[c].tasks[i].retry) =>
      /\ INSTANCES[i].url \notin DOMAIN sessionCache'
      /\ calls'[c].tasks[i].pc = "login"
      /\ calls'[c].tasks[i].logins = calls[c].tasks[i].logins + 1

\* C8: on a 401 to its write, setInstanceBlocking deletes the instance's
\* cached session and repeats authenticate + write once; a 401 to the second
\* write is thrown, not retried: one invocation issues at most two writes and
\* at most two logins.
C8_WriteRetryOnce == []C8_AtMostTwoWrites /\ [][C8_RetryStep]_vars

\* A setInstanceBlocking that logged in twice, wrote twice and threw on the
\* second 401.
C8_Witness ==
  \E c \in SetCalls : \E i \in Idx :
    LET task == Task(c, i) IN
    /\ IsRejected(task)
    /\ ~task.retry
    /\ task.w # Null /\ task.w.status = 401
    /\ task.logins = 2 /\ task.rounds = 2

Contains(message, chunk) == \E k \in DOMAIN message : message[k] = chunk

\* C9: setInstanceBlocking returns a result only when its last write was
\* answered 200; on any other status it throws an error whose message holds
\* the instance name and the body as received, and setAllBlocking gets that
\* error (its entry for the instance carries the message).
C9_ThrowsUnless200 ==
  \A c \in SetCalls : \A i \in Idx :
    LET task == Task(c, i) IN
    /\ IsFulfilled(task) => task.w # Null /\ task.w.status = 200
    /\ (task.pc = "done" /\ task.w # Null /\ task.w.status # 200) =>
         /\ IsRejected(task)
         /\ Contains(task.out.reason, INSTANCES[i].name)
         /\ task.w.data = Unauthorized =>
              Contains(task.out.reason, "{\"error\":\"unauthorized\"}")
         /\ task.w.data = ServerError =>
              Contains(task.out.reason, "{\"error\":\"internal_error\"}")
         /\ calls[c].state = "returned" => calls[c].result[i].error = task.out.reason

\* A setAllBlocking has returned after an instance's write was answered 500.
C9_Witness ==
  \E c \in SetCalls : \E i \in Idx :
    /\ calls[c].state = "returned"
    /\ Task(c, i).w # Null /\ Task(c, i).w.status = 500
    /\ calls[c].result[i].error =
         <<"Failed to set blocking on ", INSTANCES[i].name, ": ",
           "{\"error\":\"internal_error\"}">>

\* c2 is the fetch that follows c1 on instance i: c1 had ended when c2 was
\* made, and every other call had ended before c1 or was made after c2.
Consecutive(c1, c2) ==
  /\ c1 \in calls[c2].after
  /\ \A d \in Started \ {c1, c2} : d \in calls[c1].after \/ d > c2

\* A getInstanceStatus that settled without an error and without having been
\* answered 401.
Accepted(task) ==
  /\ Settled(task) /\ task.retry /\ task.fault = "none"
  /\ task.b # Null /\ task.b.status = 200
  /\ task.s # Null /\ task.s.status = 200

\* C10: two consecutive status fetches for one instance, the second made
\* before the credential of the first is within 30 s of the end of its
\* reported validity, the appliance accepting the credential, perform exactly
\* one login in total.
C10_SecondFetchReusesSession ==
  \A c1 \in StatusCalls : \A c2 \in StatusCalls : \A i \in Idx :
    LET t1 == Task(c1, i)
        t2 == Task(c2, i)
    IN ( /\ Consecutive(c1, c2)
         /\ Accepted(t1) /\ t1.logins = 1
         /\ t1.login.validity > 0
         /\ calls[c2].startedAt < t1.login.at + t1.login.validity * 1000 - 30000
         /\ Accepted(t2) ) =>
           t1.logins + t2.logins = 1

\* The second fetch was made 29 s after the first one's login and has
\* settled without a login of its own.
C10_Witness ==
  \E c1 \in StatusCalls : \E c2 \in StatusCalls : \E i \in Idx :
    /\ Consecutive(c1, c2)
    /\ Accepted(Task(c1, i)) /\ Task(c1, i).logins = 1
    /\ Task(c1, i).login.at = 0
    /\ calls[c2].startedAt = 29000
    /\ Accepted(Task(c2, i)) /\ Task(c2, i).logins = 0

\* The entry the store holds for instance i.
Entry(i) == sessionCache[INSTANCES[i].url]
Cached(i) == INSTANCES[i].url \in DOMAIN sessionCache

\* The entry of instance i was stored with a reported validity V > 0.
StoredWithValidity(i) ==
  Cached(i) /\ Entry(i).validity # Null /\ Entry(i).validity[1] > 0

\* The claim's window: now < t0 + V * 1000 - 30000.
InWindow(i, t) ==
  t < Entry(i).storedAt + Entry(i).validity[1] * 1000 - 30000

C11_ValidInWindow ==
  \A i \in Idx :
    StoredWithValidity(i) =>
      (CacheValid(sessionCache, now, INSTANCES[i]) <=> InWindow(i, now))

\* A call is made: each of its operations gets the cached credential, and
\* posts no login, exactly when the entry is inside its window.
C11_ReturnedInWindow ==
  \A c \in CallIds : \A i \in Idx :
    (calls[c].state = "idle" /\ calls'[c].state # "idle" /\ StoredWithValidity(i)) =>
      IF InWindow(i, now)
        THEN /\ calls'[c].tasks[i].pc # "login"
             /\ calls'[c].tasks[i].logins = 0
             /\ calls'[c].tasks[i].session = Entry(i).session
        ELSE /\ calls'[c].tasks[i].pc = "login"
             /\ calls'[c].tasks[i].logins = 1

C12_ReportedValidityOrDefault ==
  \A i \in Idx :
    Cached(i) =>
      Entry(i).expiresAt = Entry(i).storedAt +
        (IF Entry(i).validity = Null THEN 300 ELSE Entry(i).validity[1]) * 1000

\* No other operation can have touched the store since operation (c, i)
\* ended: every other call was over when c was made, or has not been made.
NothingSince(c) ==
  \A d \in CallIds \ {c} : calls[d].state = "idle" \/ d \in calls[c].after

\* Operation (c, i) ended inside authenticate.
FailedInAuthenticate(task) ==
  task.pc = "done" /\ task.session = Null /\ task.fault \in {"auth", "transport"}

\* What the operation ended with: the message of the error.
Message(c, i) ==
  IF calls[c].kind = "status" THEN Task(c, i).out.value.error ELSE Task(c, i).out.reason

\* C13: whenever authenticate fails (the login is refused, or the login
\* request errors or times out), the store holds no entry for the instance
\* afterwards and the error raised is the authentication error.
C13_FailedLoginLeavesNoEntry ==
  \A c \in Started : \A i \in Idx :
    (FailedInAuthenticate(Task(c, i)) /\ NothingSince(c)) =>
      /\ ~Cached(i)
      /\ Message(c, i) = AuthError(INSTANCES[i])

\* C14: authenticate returns and caches a credential only when the login
\* answer has both a sid and a csrf: every credential in the store, and every
\* credential an operation works with, has both.
C14_CredentialsHaveSidAndCsrf ==
  /\ \A i \in Idx :
       Cached(i) => Entry(i).session.sid # Null /\ Entry(i).session.csrf # Null
  /\ \A c \in Started : \A i \in Idx :
       Task(c, i).session # Null =>
         Task(c, i).session.sid # Null /\ Task(c, i).session.csrf # Null

\* An operation's login timed out while the store held a stale entry for the
\* instance, and the entry is still there.
C13_StaleEntryKept ==
  \E c \in Started : \E i \in Idx :
    /\ FailedInAuthenticate(Task(c, i)) /\ NothingSince(c)
    /\ Task(c, i).fault = "transport"
    /\ Cached(i)

C16_RedirectsBounded ==
  /\ chain.outbound <= MAX_REDIRECTS + 1
  /\ chain.state # "idle" => chain.outbound >= 1
  /\ (chain.state = "rejected" /\ chain.result = <<"Too many redirects">>)
       <=> Len(chain.followed) = MAX_REDIRECTS + 1
  /\ Len(chain.followed) = MAX_REDIRECTS + 1 => chain.outbound = MAX_REDIRECTS + 1
  /\ chain.state \in {"pending", "resolved"} =>
       /\ Len(chain.followed) <= MAX_REDIRECTS
       /\ chain.outbound = Len(chain.followed) + 1
       /\ chain.redirectCount = Len(chain.followed)
  /\ chain.state = "pending" =>
       ENABLED Answer([status |-> 200, location |-> Url("", ""),
                       data |-> [blocking |-> "enabled"]])
  /\ chain.state = "resolved" => chain.result.status \in {200, 301, 302, 303, 307, 308, 401}

\* A chain of exactly 5 redirects followed by a final answer has resolved with
\* that answer.
C16_Witness ==
  /\ chain.state = "resolved"
  /\ Len(chain.followed) = 5
  /\ chain.outbound = 6
  /\ chain.result = Response(200, [blocking |-> "enabled"])

\* A target that redirects every request: 6 outbound requests, then the
\* rejection.
C16_TooManyReached ==
  /\ chain.state = "rejected"
  /\ chain.result = <<"Too many redirects">>
  /\ chain.outbound = 6

EntryOrNone(cache, url) == IF url \in DOMAIN cache THEN cache[url] ELSE Null

\* The store holds entries for configured URLs only (one per URL: it is a
\* map), each with a credential issued to its own instance, and every
\* operation works with a credential issued to its own instance.
C17_OneEntryPerUrl ==
  /\ DOMAIN sessionCache \subseteq { INSTANCES[i].url : i \in Idx }
  /\ \A i \in Idx : Cached(i) => Entry(i).session.sid[2] = i
  /\ \A c \in Started : \A i \in Idx :
       Task(c, i).session # Null => Task(c, i).session.sid[2] = i

\* A step that changes the entry of instance j is a step of an operation on
\* j, and of no operation on another instance.
C17_OwnEntryOnly ==
  \A j \in Idx :
    EntryOrNone(sessionCache', INSTANCES[j].url) # EntryOrNone(sessionCache, INSTANCES[j].url) =>
      /\ \E c \in Started : calls'[c].tasks[j] # calls[c].tasks[j]
      /\ \A c \in Started : \A k \in Idx \ {j} : calls'[c].tasks[k] = calls[c].tasks[k]

\* C17: the store holds at most one entry per instance URL, and an operation
\* running for instance A reads, writes and deletes only the entry keyed by
\* A.url: the entries of the other instances are left as they are, under any
\* interleaving.
C17_StoreKeyedPerInstance == []C17_OneEntryPerUrl /\ [][C17_OwnEntryOnly]_vars

\* Two instances: the operation on the first has deleted its entry for the
\* retry, and the second's entry is in the store.
C17_Witness ==
  \E c \in Started :
    /\ N = 2
    /\ ~Task(c, 1).retry /\ Task(c, 1).pc = "login"
    /\ ~Cached(1)
    /\ Cached(2)

\* The store's entry for an instance is whole and is the credential a login
\* of an operation on that instance was answered with; an attempt posts at
\* most one login.
C18_EntryFromALogin ==
  /\ \A i \in Idx :
       Cached(i) =>
         /\ \E c \in Started : \E att \in {1, 2} :
              /\ Task(c, i).logins >= 1
              /\ Task(c, i).login # Null
              /\ Entry(i).session = [sid |-> IssuedSid(c, i, att), csrf |-> IssuedCsrf(c, i, att)]
         /\ Entry(i).expiresAt = Entry(i).storedAt + 60000
  /\ \A c \in Started : \A i \in Idx : Task(c, i).logins <= Attempt(Task(c, i))

\* The step in which an operation's login is accepted stores that login's
\* credential, whatever the store held; and an entry is only ever put there by
\* such a step.
C18_LastProcessedWins ==
  \A i \in Idx :
    /\ \A c \in Started :
         ( /\ calls[c].tasks[i].pc = "login"
           /\ calls'[c].tasks[i].pc # "login"
           /\ calls'[c].tasks[i].session # Null ) =>
             /\ INSTANCES[i].url \in DOMAIN sessionCache'
             /\ sessionCache'[INSTANCES[i].url].session = calls'[c].tasks[i].session
             /\ sessionCache'[INSTANCES[i].url].storedAt = now
    /\ ( /\ INSTANCES[i].url \in DOMAIN sessionCache'
         /\ EntryOrNone(sessionCache', INSTANCES[i].url) # EntryOrNone(sessionCache, INSTANCES[i].url) ) =>
           \E c \in Started :
             /\ calls[c].tasks[i].pc = "login"
             /\ calls'[c].tasks[i].session = sessionCache'[INSTANCES[i].url].session

\* C18: two overlapping operations on one instance that both find no valid
\* credential each post their own login (one of the two is redundant, no
\* more); once both logins have succeeded the store holds one entry for the
\* URL, with the credential of the login answer processed last, a credential
\* a successful login issued.
C18_OverlappingLoginsLastWins == []C18_EntryFromALogin /\ [][C18_LastProcessedWins]_vars

\* Two overlapping operations on one instance have each posted one login and
\* both were accepted; the store holds the credential of the first call's
\* login, whose answer was processed after the second's.
C18_Witness ==
  \E i \in Idx :
    /\ 1 \in Started /\ 2 \in Started
    /\ 1 \notin calls[2].after
    /\ Task(1, i).retry /\ Task(1, i).logins = 1 /\ Task(1, i).login # Null
    /\ Task(2, i).retry /\ Task(2, i).logins = 1 /\ Task(2, i).login # Null
    /\ Cached(i)
    /\ Entry(i).session.sid = IssuedSid(1, i, 1)

\* Requests of operation task still unanswered.
InFlight(task) ==
  IF task.pc = "login" \/ task.pc = "write" THEN 1
  ELSE IF task.pc = "reads"
    THEN (IF task.b = Null THEN 1 ELSE 0) + (IF task.s = Null THEN 1 ELSE 0)
  ELSE 0

\* The step that starts the retry answers the last unanswered request of the
\* first attempt, and what is in flight after it is the retry's login alone.
C19_RetryAfterAttemptCompleted ==
  \A c \in Started : \A i \in Idx :
    (calls[c].tasks[i].retry /\ ~calls'[c].tasks[i].retry) =>
      /\ InFlight(calls[c].tasks[i]) = 1
      /\ calls[c].tasks[i].pc \in {"reads", "write"}
      /\ calls'[c].tasks[i].pc = "login"
      /\ calls'[c].tasks[i].b = Null /\ calls'[c].tasks[i].s = Null
      /\ calls'[c].tasks[i].w = Null
      /\ calls'[c].tasks[i].rounds = 1

\* While a retry is running, the requests of the first attempt have all been
\* answered: the operation's requests in flight are those of one attempt.
C19_OneAttemptInFlight ==
  \A c \in Started : \A i \in Idx :
    LET task == Task(c, i) IN
    /\ task.pc = "login" => task.b = Null /\ task.s = Null /\ task.w = Null
    /\ InFlight(task) <= (IF calls[c].kind = "status" /\ task.pc = "reads" THEN 2 ELSE 1)
    /\ task.rounds <= Attempt(task)

\* C19: within one per-instance operation the 401 retry is sequential: the
\* retry's login and requests are issued only after every request of the
\* first attempt has been answered (for a status fetch, both reads), so an
\* operation never has two attempts in flight.
C19_RetrySequential == []C19_OneAttemptInFlight /\ [][C19_RetryAfterAttemptCompleted]_vars

\* A status fetch that logged in, got 401 in its round of reads and, both
\* reads answered, is now posting the retry's login.
C19_Witness ==
  \E c \in StatusCalls : \E i \in Idx :
    /\ ~Task(c, i).retry
    /\ Task(c, i).pc = "login"
    /\ Task(c, i).rounds = 1
    /\ Task(c, i).logins = 2

\* C20: setAllBlocking(true) on instances that are enabled gives
\* blocking = true and timer = 0 for every instance whose write succeeds, and
\* a second call gives the same per-instance results as the first.
C20_EnableIdempotent ==
  /\ \A c \in SetCalls : \A i \in Idx :
       (calls[c].enabled /\ IsFulfilled(Task(c, i))) =>
         /\ Task(c, i).out.value =
              [name |-> INSTANCES[i].name, blocking |-> <<TRUE>>, timer |-> 0]
         /\ calls[c].state = "returned" =>
              calls[c].result[i] =
                [name |-> INSTANCES[i].name, blocking |-> <<TRUE>>, timer |-> 0,
                 error |-> Null]
  /\ \A c1 \in SetCalls : \A c2 \in SetCalls : \A i \in Idx :
       ( /\ calls[c1].enabled /\ calls[c2].enabled
         /\ calls[c1].state = "returned" /\ calls[c2].state = "returned"
         /\ IsFulfilled(Task(c1, i)) /\ IsFulfilled(Task(c2, i)) ) =>
           calls[c1].result[i] = calls[c2].result[i]

\* setAllBlocking(true) was called, returned, and was called again: both
\* calls succeeded on the instance and returned blocking = true, timer = 0.
C20_Witness ==
  \E i \in Idx :
    /\ 1 \in SetCalls /\ 2 \in SetCalls
    /\ Consecutive(1, 2)
    /\ calls[1].enabled /\ calls[2].enabled
    /\ calls[1].state = "returned" /\ calls[2].state = "returned"
    /\ calls[1].result[i].blocking = <<TRUE>> /\ calls[1].result[i].timer = 0
    /\ calls[1].result[i].error = Null
    /\ calls[2].result[i] = calls[1].result[i]

\* The per-instance lifecycle: Authenticated is a valid entry in the store,
\* Unauthenticated is anything else.
Authenticated(cache, t, i) == CacheValid(cache, t, INSTANCES[i])

\* In this step an operation on instance i was answered 401 and invalidated
\* the entry (the one place retry goes from true to false).
Invalidated(i) ==
  \E c \in Started : Task(c, i).retry /\ ~calls'[c].tasks[i].retry

\* In this step a login of an operation on instance i was refused.
LoginRefused(i) ==
  \E c \in Started :
    /\ Task(c, i).pc = "login"
    /\ calls'[c].tasks[i].pc = "done" /\ calls'[c].tasks[i].fault = "auth"

\* In this step a login of an operation on instance i was accepted.
LoginSucceeded(i) ==
  \E c \in Started :
    /\ Task(c, i).pc = "login"
    /\ calls'[c].tasks[i].session # Null

\* C21, the state part: the operation that follows one that failed in
\* authenticate posts a login of its own at once (nothing of the failure is
\* kept: it takes no credential from the store and does not wait), and an
\* entry of the store is a session with its expiry, nothing else.
C21_FreshLoginAfterFailure ==
  /\ \A c1 \in Started, c2 \in Started : \A i \in Idx :
       (Consecutive(c1, c2) /\ FailedInAuthenticate(Task(c1, i))) =>
         /\ Task(c2, i).logins >= 1
         /\ ~Task(c2, i).usedCached
  /\ \A i \in Idx : Cached(i) => Entry(i).session # Null

\* C21, the step part: an instance leaves Authenticated only when time
\* passes (expiry), on a 401-triggered invalidation or on a refused login,
\* and enters it only on an accepted login.
C21_Lifecycle ==
  \A i \in Idx :
    /\ (Authenticated(sessionCache, now, i) /\ ~Authenticated(sessionCache', now', i)) =>
         \/ now' > now
         \/ Invalidated(i)
         \/ LoginRefused(i)
    /\ (~Authenticated(sessionCache, now, i) /\ Authenticated(sessionCache', now', i)) =>
         LoginSucceeded(i)

\* C21: a login failure is never remembered: after authenticate has failed
\* for an instance, the next operation on it attempts a fresh login, and the
\* instance's lifecycle has only Unauthenticated and Authenticated, left
\* only by a 401-triggered invalidation, a login failure or expiry.
C21_FailureNotRemembered ==
  []C21_FreshLoginAfterFailure /\ [][C21_Lifecycle]_vars

\* An operation failed in authenticate, and the operation that followed it on
\* the instance posted one login of its own and ended with the status.
C21_Witness ==
  \E c1 \in Started, c2 \in Started : \E i \in Idx :
    /\ Consecutive(c1, c2)
    /\ FailedInAuthenticate(Task(c1, i))
    /\ IsFulfilled(Task(c2, i)) /\ Task(c2, i).fault = "none"
    /\ Task(c2, i).logins = 1 /\ ~Task(c2, i).usedCached

(***************************************************************************)
(* The program when every outbound request ends: each request in flight    *)
(* is answered, fails, or is destroyed by the request timeout              *)
(* (req.setTimeout of REQUEST_TIMEOUT_MS), so an operation that waits on   *)
(* one eventually takes its next step.  Two instances are configured, so   *)
(* that one can stay silent while the other answers.                       *)
(***************************************************************************)
LiveInit ==
  /\ INSTANCES = getInstances(MaxInstances)
  /\ sessionCache = <<>>
  /\ now = 0
  /\ calls = [c \in CallIds |-> IdleCall]
  /\ appliance = "validity"
  /\ chain = IdleChain
  /\ http = IdleHttp
  /\ ui = PageLoaded

LiveSpec ==
  /\ LiveInit
  /\ [][Next]_vars
  /\ \A c \in CallIds : \A i \in 1..MaxInstances : WF_vars(TaskStep(c, i))

\* The request of operation (c, i) that was in flight timed out.
TimedOut(task) ==
  Settled(task) /\ task.fault = "transport"

\* The error operation (c, i) contributed to the aggregate of its call.
ReportedError(c, i) == calls[c].result[i].error

\* C22, the step to the aggregate: a call that has been made returns.
C22_CallReturns ==
  \A c \in CallIds : (calls[c].state = "running") ~> (calls[c].state = "returned")

\* C22, what a time-out does to the aggregate: the entry of the instance that
\* timed out carries the error, and every other entry is what that
\* instance's own operation ended with.
C22_TimeoutIsOwnFailure ==
  \A c \in Started : calls[c].state = "returned" =>
    \A i \in Idx :
      /\ TimedOut(Task(c, i)) => ReportedError(c, i) = <<"Request timeout">>
      /\ ReportedError(c, i) # Null => Task(c, i).fault # "none"

\* C22: every outbound request eventually being answered, failing or being
\* aborted by the request timeout, every getAllStatus and every
\* setAllBlocking call eventually returns its aggregate, and a timed-out
\* request is reported as a failure of its instance only.
C22_EveryCallReturns ==
  C22_CallReturns /\ []C22_TimeoutIsOwnFailure

\* A call returned its aggregate although one instance's request timed out:
\* that instance's entry has the error, the other instance's entry has none.
C22_Witness ==
  \E c \in Started : \E i \in Idx, j \in Idx :
    /\ calls[c].state = "returned"
    /\ TimedOut(Task(c, i)) /\ ReportedError(c, i) = <<"Request timeout">>
    /\ i # j /\ Task(c, j).fault = "none" /\ ReportedError(c, j) = Null

\* The appliance of instance i applied the write of call c: it answered 200
\* with the state it was asked to set.
Applied(c, i) ==
  /\ Task(c, i).w # Null
  /\ Task(c, i).w.status = 200
  /\ Task(c, i).w.data # Null

\* The blocking value and the timer value instance i was asked to set by
\* call c, as its appliance echoed them (Null: no timer in the body).
Received(c, i) ==
  [ blocking |-> Task(c, i).w.data.blocking = "enabled",
    timer |-> IF Has(Task(c, i).w.data, "timer") THEN <<Task(c, i).w.data.timer>> ELSE Null ]

\* C23: one setAllBlocking(enabled, timerSeconds) call attempts the action
\* on every configured instance (each instance's operation is started by the
\* call), and every instance is asked for the same blocking value and the
\* same timer value: the arguments of the call.
C23_SameWriteEverywhere ==
  \A c \in SetCalls :
    /\ \A i \in Idx : Task(c, i).pc # "new" /\ Task(c, i).logins + Task(c, i).rounds >= 1
    /\ \A i \in Idx : Applied(c, i) =>
         /\ Received(c, i).blocking = calls[c].enabled
         /\ Received(c, i).timer =
              (IF calls[c].enabled THEN Null ELSE calls[c].timerSeconds)
    /\ \A i \in Idx, j \in Idx :
         (Applied(c, i) /\ Applied(c, j)) => Received(c, i) = Received(c, j)

\* A disable for 1800 seconds was applied by both instances, each with the
\* timer of 1800 seconds.
C23_Witness ==
  \E c \in SetCalls :
    /\ N = 2 /\ ~calls[c].enabled
    /\ \A i \in Idx : Applied(c, i) /\ Received(c, i).timer = <<1800>>

(***************************************************************************)
(* The HTTP surface: handleRequest, one request at a time, over two        *)
(* configured instances.                                                   *)
(***************************************************************************)
Digits == {"0", "1", "2", "3", "4", "5", "6", "7", "8", "9"}

DigitValue(ch) ==
  CASE ch = "0" -> 0 [] ch = "1" -> 1 [] ch = "2" -> 2 [] ch = "3" -> 3 [] ch = "4" -> 4
    [] ch = "5" -> 5 [] ch = "6" -> 6 [] ch = "7" -> 7 [] ch = "8" -> 8 [] ch = "9" -> 9

\* parseInt(digits, 10) of a string of decimal digits
RECURSIVE parseInt(_)
parseInt(digits) ==
  IF Len(digits) = 0 THEN 0
  ELSE parseInt(SubSeq(digits, 1, Len(digits) - 1)) * 10 + DigitValue(digits[Len(digits)])

\* url.pathname: a prefix and the characters that follow it.
Pathname(prefix, rest) == [prefix |-> prefix, rest |-> rest]

\* What may follow '/disable/' and '/api/disable/' in a request.
Durations ==
  { <<"0">>, <<"1">>, <<"3", "0">>, <<"0", "3", "0">>, <<"4", "3", "2", "0", "0">>,
    <<"4", "3", "2", "0", "1">>, <<"3", "0", "m">>, <<"-", "1">>, <<>> }

Pathnames ==
  { Pathname(p, <<>>) : p \in {"/", "/enable", "/api/status", "/api/enable", "/health",
                               "/favicon.ico"} }
    \cup { Pathname(p, d) : p \in {"/disable/", "/api/disable/"}, d \in Durations }

Requests == [method : {"GET", "POST"}, path : Pathnames]

\* path === p
PathIs(path, p) == path = Pathname(p, <<>>)

\* path.match(/^\/disable\/(\d+)$/) and path.match(/^\/api\/disable\/(\d+)$/)
Match(path, prefix) ==
  /\ path.prefix = prefix
  /\ Len(path.rest) >= 1
  /\ \A k \in 1..Len(path.rest) : path.rest[k] \in Digits

\* handleRequest: the branch a request takes, the tests in the code's order.
Route(req) ==
  IF req.method = "GET" /\ PathIs(req.path, "/") THEN "page"
  ELSE IF req.method = "GET" /\ PathIs(req.path, "/enable") THEN "enable"
  ELSE IF req.method = "GET" /\ Match(req.path, "/disable/") THEN "disable"
  ELSE IF req.method = "GET" /\ PathIs(req.path, "/api/status") THEN "apiStatus"
  ELSE IF req.method = "POST" /\ PathIs(req.path, "/api/enable") THEN "apiEnable"
  ELSE IF req.method = "POST" /\ Match(req.path, "/api/disable/") THEN "apiDisable"
  ELSE IF req.method = "GET" /\ PathIs(req.path, "/health") THEN "health"
  ELSE "notFound"

\* Mutant of DurationInvalid: only the upper limit is tested.
DurationInvalidAboveOnly(minutes) == minutes > MAX_DISABLE_MINUTES

\* minutes < 1 || minutes > MAX_DISABLE_MINUTES
DurationInvalid(minutes) == minutes < 1 \/ minutes > MAX_DISABLE_MINUTES

\* redirect(res, location)
redirect(location) ==
  [status |-> 302, headers |-> [Location |-> location], body |-> Null]

\* jsonResponse(res, status, data)
jsonResponse(status, data) ==
  [status |-> status, headers |-> [ContentType |-> "application/json"], body |-> data]

\* getStatusPage(): of the page, what is generated from the configuration.
getStatusPage ==
  [instanceNames |-> [i \in Idx |-> INSTANCES[i].name]]

\* GET /: res.writeHead(200, {'Content-Type': 'text/html', ...}) and the page
StatusPage ==
  [status |-> 200, headers |-> [ContentType |-> "text/html"], body |-> getStatusPage]

DurationError ==
  <<"Duration must be between 1 and ", ToString(MAX_DISABLE_MINUTES), " minutes">>

\* The request is answered.
Answered(req, response) ==
  [ state |-> "answered", request |-> req, call |-> 0, response |-> response,
    served |-> http.served + 1 ]

\* The handler awaits call c.
Awaiting(req, c) ==
  [ state |-> "pending", request |-> req, call |-> c, response |-> Null,
    served |-> http.served ]

\* The handler calls getAllStatus() or setAllBlocking(...) and awaits it.
Await(req, kind, enabled, timerSeconds) ==
  \E c \in CallIds :
    /\ MayStart(c)
    /\ calls' = [calls EXCEPT ![c] =
                   Launch([IdleCall EXCEPT !.kind = kind, !.enabled = enabled,
                                           !.timerSeconds = timerSeconds])]
    /\ http' = Awaiting(req, c)

\* handleRequest(req, res), up to its await or, on the branches that have
\* none, to its end.
handleRequest(req) ==
  /\ http.state \in {"idle", "answered"}
  /\ http.served < MaxRequests
  /\ LET route == Route(req)
         minutes == parseInt(req.path.rest)
     IN CASE route = "page" ->
               http' = Answered(req, StatusPage) /\ calls' = calls
          [] route = "enable" -> Await(req, "set", TRUE, Null)
          [] route = "disable" ->
               IF DurationInvalid(minutes)
                 THEN http' = Answered(req, redirect("/?error=invalid_duration"))
                      /\ calls' = calls
                 ELSE Await(req, "set", FALSE, <<minutes * 60>>)
          [] route = "apiStatus" -> Await(req, "status", FALSE, Null)
          [] route = "apiEnable" -> Await(req, "set", TRUE, Null)
          [] route = "apiDisable" ->
               IF DurationInvalid(minutes)
                 THEN http' = Answered(req, jsonResponse(400, [success |-> FALSE,
                                                               error |-> DurationError]))
                      /\ calls' = calls
                 ELSE Await(req, "set", FALSE, <<minutes * 60>>)
          [] route = "health" ->
               http' = Answered(req, jsonResponse(200, [status |-> "ok", instances |-> N]))
               /\ calls' = calls
          [] OTHER ->
               http' = Answered(req, jsonResponse(404, [error |-> "Not found"]))
               /\ calls' = calls
  /\ UNCHANGED <<ui, appliance, chain, INSTANCES, sessionCache, now>>

\* Mutant of RedirectAfterAction: a failed instance sends the browser to an
\* error URL.
RedirectAfterActionReportsFailure(call) ==
  IF call.state = "returned" /\ \A i \in DOMAIN call.result : call.result[i].error = Null
    THEN redirect("/")
    ELSE redirect("/?error=failed")

\* GET /enable, GET /disable/:minutes: try { await setAllBlocking(...) }
\* catch (err) { console.error(...) } redirect(res, '/')
RedirectAfterAction(call) == redirect("/")

\* Mutant of JsonAfterCall: an instance's failure makes the answer the error
\* response.
JsonAfterCallFailsOnInstanceError(call) ==
  IF call.state = "returned" /\ \A i \in DOMAIN call.result : call.result[i].error = Null
    THEN jsonResponse(200, [success |-> TRUE, instances |-> call.result])
    ELSE jsonResponse(500, [success |-> FALSE, error |-> "failed"])

\* The API routes: try { const instances = await ...; jsonResponse(res, 200,
\* { success: true, instances }) } catch (err) { jsonResponse(res, 500, ...) }
JsonAfterCall(call) ==
  IF call.state = "returned"
    THEN jsonResponse(200, [success |-> TRUE, instances |-> call.result])
    ELSE jsonResponse(500, [success |-> FALSE, error |-> call.result])

\* handleRequest, after its await.
Respond ==
  /\ http.state = "pending"
  /\ Ended(http.call)
  /\ http' = [ Answered(http.request,
                        IF Route(http.request) \in {"enable", "disable"}
                          THEN RedirectAfterAction(calls[http.call])
                          ELSE JsonAfterCall(calls[http.call]))
               EXCEPT !.call = http.call ]
  /\ UNCHANGED <<ui, appliance, chain, INSTANCES, sessionCache, now, calls>>

HttpInit ==
  /\ INSTANCES = getInstances(MaxInstances)
  /\ sessionCache = <<>>
  /\ now = 0
  /\ calls = [c \in CallIds |-> IdleCall]
  /\ appliance = "validity"
  /\ chain = IdleChain
  /\ http = IdleHttp
  /\ ui = PageLoaded

HttpNext ==
  \/ \E req \in Requests : handleRequest(req)
  \/ \E c \in CallIds, i \in Idx : TaskStep(c, i)
  \/ Respond

HttpSpec == HttpInit /\ [][HttpNext]_vars

\* The request being handled, or the last one answered.
Handling(method, prefix) ==
  /\ http.state # "idle"
  /\ http.request.method = method
  /\ http.request.path.prefix = prefix

\* The request is GET /disable/<digits> or POST /api/disable/<digits>.
DisableRequest(method, prefix) ==
  /\ Handling(method, prefix)
  /\ Len(http.request.path.rest) >= 1
  /\ \A k \in 1..Len(http.request.path.rest) : http.request.path.rest[k] \in Digits

\* The minutes the request asks for.
RequestedMinutes == parseInt(http.request.path.rest)

\* The request is GET /enable, or GET /disable/:minutes with minutes in range.
ActionLink ==
  \/ Handling("GET", "/enable") /\ http.request.path.rest = <<>>
  \/ /\ DisableRequest("GET", "/disable/")
     /\ RequestedMinutes >= 1 /\ RequestedMinutes <= 43200

PageRequest(h) ==
  h.state # "idle" /\ h.request = [method |-> "GET", path |-> Pathname("/", <<>>)]

\* C24, the state part: GET /enable and GET /disable/:minutes (minutes in
\* range) are answered only after the fan-out has finished, and then, whatever
\* the instances' writes ended with, by a 302 to '/'; the answer is written
\* as soon as the fan-out has finished; GET / is answered with the page and
\* makes no call.
C24_RedirectAfterFanOut ==
  /\ ActionLink =>
       /\ http.call # 0 /\ calls[http.call].kind = "set"
       /\ http.state = "pending" => http.response = Null
       /\ (http.state = "pending" /\ Ended(http.call)) => ENABLED Respond
       /\ http.state = "answered" =>
            /\ calls[http.call].state = "returned"
            /\ http.response.status = 302
            /\ http.response.headers = [Location |-> "/"]
  /\ PageRequest(http) =>
       /\ http.state = "answered" /\ http.call = 0
       /\ http.response.status = 200
       /\ http.response.headers.ContentType = "text/html"

\* C24, the step part: handling GET / starts no operation on any instance.
C24_PageIssuesNoWrite ==
  (PageRequest(http') /\ http' # http) => calls' = calls

\* C24: GET /enable and GET /disable/:minutes with 1 <= minutes <= 43200
\* always answer with a 302 redirect to '/' once the fan-out has finished,
\* whether the per-instance writes succeeded or failed, and GET / issues no
\* write, so refreshing the page the browser lands on does not re-trigger
\* the action.
C24_RedirectToRoot ==
  []C24_RedirectAfterFanOut /\ [][C24_PageIssuesNoWrite]_vars

\* GET /disable/30 was answered with the redirect to '/' after the write
\* had failed on one instance and succeeded on the other.
C24_Witness ==
  /\ DisableRequest("GET", "/disable/") /\ RequestedMinutes = 30
  /\ http.state = "answered"
  /\ http.response = [status |-> 302, headers |-> [Location |-> "/"], body |-> Null]
  /\ \E i \in Idx, j \in Idx :
       /\ calls[http.call].result[i].error # Null
       /\ calls[http.call].result[j].error = Null /\ Applied(http.call, j)

\* The request is a disable request whose minutes are out of range.
OutOfRange(method, prefix) ==
  /\ DisableRequest(method, prefix)
  /\ (RequestedMinutes < 1 \/ RequestedMinutes > 43200)

\* The request is a disable request whose minutes are in range.
InRange(method, prefix) ==
  /\ DisableRequest(method, prefix)
  /\ RequestedMinutes >= 1 /\ RequestedMinutes <= 43200

\* The body call c writes to every instance has this timer.
WritesTimer(c, seconds) ==
  /\ Has(WriteBody(calls[c].enabled, calls[c].timerSeconds), "timer")
  /\ WriteBody(calls[c].enabled, calls[c].timerSeconds).timer = seconds
  /\ \A i \in Idx : Applied(c, i) => Received(c, i).timer = <<seconds>>

\* C30, the state part: a disable request out of range is answered at once,
\* by the redirect to '/?error=invalid_duration' resp. by a 400 with
\* success false, and has made no call; one in range has called
\* setAllBlocking(false, minutes * 60), and every instance's write has
\* timer = minutes * 60; no call made by a request disables without a timer.
C30_DisableInRangeOnly ==
  /\ OutOfRange("GET", "/disable/") =>
       /\ http.state = "answered" /\ http.call = 0
       /\ http.response.status = 302
       /\ http.response.headers = [Location |-> "/?error=invalid_duration"]
  /\ OutOfRange("POST", "/api/disable/") =>
       /\ http.state = "answered" /\ http.call = 0
       /\ http.response.status = 400
       /\ http.response.body.success = FALSE
  /\ (InRange("GET", "/disable/") \/ InRange("POST", "/api/disable/")) =>
       /\ http.call # 0 /\ calls[http.call].kind = "set"
       /\ ~calls[http.call].enabled
       /\ calls[http.call].timerSeconds = <<RequestedMinutes * 60>>
       /\ WritesTimer(http.call, RequestedMinutes * 60)
  /\ \A c \in SetCalls : ~calls[c].enabled =>
       /\ calls[c].timerSeconds # Null
       /\ calls[c].timerSeconds[1] >= 60 /\ calls[c].timerSeconds[1] <= 43200 * 60
       /\ WritesTimer(c, calls[c].timerSeconds[1])

\* C30, the step part: the step that rejects a disable request starts no
\* operation on any instance.
C30_RejectedWithoutCall ==
  (http' # http /\ http'.state = "answered" /\ http'.call = 0) => calls' = calls

\* C30: a disable request reaches the backends only with a duration in
\* range: GET /disable/:minutes and POST /api/disable/:minutes with
\* minutes < 1 or minutes > 43200 are rejected (redirect to
\* '/?error=invalid_duration', resp. HTTP 400 with success false) without
\* calling setAllBlocking, and otherwise every instance write carries
\* timer = minutes * 60, so no request produces a disable without a timer.
C30_NoIndefiniteDisable ==
  []C30_DisableInRangeOnly /\ [][C30_RejectedWithoutCall]_vars

\* POST /api/disable/43200 made both instances disable for 2592000 seconds,
\* and the POST /api/disable/43201 that followed was answered 400 without a
\* call.
C30_Witness ==
  /\ OutOfRange("POST", "/api/disable/") /\ RequestedMinutes = 43201
  /\ http.state = "answered" /\ http.response.status = 400 /\ http.served = 2
  /\ \E c \in SetCalls :
       /\ calls[c].timerSeconds = <<2592000>>
       /\ \A i \in Idx : Applied(c, i) /\ Received(c, i).timer = <<2592000>>
  /\ \A c \in CallIds \ SetCalls : calls[c].state = "idle"

(***************************************************************************)
(* The page's script on its own: the status page in a browser, the service *)
(* behind it answering as handleRequest does for two configured instances. *)
(***************************************************************************)
\* data-minutes of the duration buttons: the first and the last of the
\* seven.
DurationButtons == {30, 1440}

\* The timers (seconds) an appliance may report for a disabled state.
ReportedTimers == {90, 2592000}

\* What the blocking read of a reachable appliance may have answered.
BlockingStates ==
  { Response(200, [blocking |-> "enabled"]), Response(200, [blocking |-> "disabled"]) }
    \cup { Response(200, [blocking |-> "disabled", timer |-> t]) : t \in ReportedTimers }

\* The entries getInstanceStatus may produce for instance i.
StatusEntries(i) ==
  { OkStatus(INSTANCES[i], b, s) :
      b \in BlockingStates, s \in {r \in StatsResponses : r.status = 200} }
    \cup { ErrorStatus(INSTANCES[i], err) : err \in TransportErrors }

\* The entries setAllBlocking(enabled, timerSeconds) may produce for
\* instance i: the write was applied, or the operation failed.
ActionEntries(i, enabled, timerSeconds) ==
  { ActionEntry(INSTANCES, i,
                Fulfilled(ActionValue(INSTANCES[i],
                                      Response(200, Echo(WriteBody(enabled, timerSeconds)))))) }
    \cup { ActionEntry(INSTANCES, i, Rejected(err)) : err \in TransportErrors }

\* The lists with one entry of entries[i] for each instance i, in order.
Lists(entries) ==
  { list \in [Idx -> UNION { entries[i] : i \in Idx }] :
      \A i \in Idx : list[i] \in entries[i] }

\* GET /api/status, as handleRequest answers it.
StatusAnswers ==
  { JsonAfterCall([state |-> "returned", result |-> list]) :
      list \in Lists([i \in Idx |-> StatusEntries(i)]) }

\* POST /api/enable and POST /api/disable/<totalMinutes>, as handleRequest
\* answers them.
ActionAnswers(action) ==
  IF action.kind = "enable"
    THEN { JsonAfterCall([state |-> "returned", result |-> list]) :
             list \in Lists([i \in Idx |-> ActionEntries(i, TRUE, Null)]) }
  ELSE IF DurationInvalid(action.totalMinutes)
    THEN { jsonResponse(400, [success |-> FALSE, error |-> DurationError]) }
  ELSE { JsonAfterCall([state |-> "returned", result |-> list]) :
           list \in Lists([i \in Idx |->
                             ActionEntries(i, FALSE, <<action.totalMinutes * 60>>)]) }

\* fetch() rejects with
FetchErrors == { <<"Failed to fetch">> }

\* updateUI: one entry of instancesData (timerEnd is kept in seconds).
UiEntry(inst) ==
  [ f \in DOMAIN inst \cup {"timerEnd", "totalQueries", "blockedQueries", "percentBlocked"} |->
      CASE f = "timerEnd" -> IF inst.timer > 0 THEN <<now \div 1000 + inst.timer>> ELSE Null
        [] f \in {"totalQueries", "blockedQueries", "percentBlocked"} -> OrZero(inst, f)
        [] OTHER -> inst[f] ]

\* instancesData.some(i => i.blocking === false)
AnyDisabled(data) == \E k \in DOMAIN data : data[k].blocking = <<FALSE>>

\* instancesData.every(i => i.blocking === false)
AllDisabled(data) == \A k \in DOMAIN data : data[k].blocking = <<FALSE>>

\* updateControls: enableBtn.style.display
EnableBtnDisplay(data) == IF AnyDisabled(data) THEN "block" ELSE "none"

\* updateControls: durationLabel.textContent
DurationLabel(data) == IF AllDisabled(data) THEN "Add time to all:" ELSE "Disable all for:"

\* updateUI(data): instancesData, renderInstances(), updateControls()
updateUI(page, data) ==
  LET instancesData == [k \in DOMAIN data |-> UiEntry(data[k])]
  IN [page EXCEPT !.instancesData = instancesData,
                  !.enableBtn = EnableBtnDisplay(instancesData),
                  !.durationLabel = DurationLabel(instancesData)]

\* showError(msg)
showError(page, msg) == [page EXCEPT !.error = msg]

\* data.error || fallback
ErrorOr(data, fallback) == IF Has(data, "error") THEN data.error ELSE fallback

\* Math.max(...values): -Infinity when there are no values.
MathMax(values) ==
  IF DOMAIN values = {}
    THEN [infinite |-> TRUE, value |-> 0]
    ELSE [infinite |-> FALSE,
          value |-> CHOOSE v \in {values[k] : k \in DOMAIN values} :
                      \A k \in DOMAIN values : values[k] <= v]

\* Math.ceil(seconds / 60)
CeilMinutes(seconds) == (seconds + 59) \div 60

\* Mutant of TotalMinutes: the remaining time is rounded down.
TotalMinutesRoundedDown(data, minutes, addTime) ==
  LET maxTimer == MathMax([k \in DOMAIN data |-> data[k].timer])
  IN IF addTime /\ ~maxTimer.infinite /\ maxTimer.value > 0
       THEN maxTimer.value \div 60 + minutes
       ELSE minutes

\* disableBlocking: totalMinutes
TotalMinutes(data, minutes, addTime) ==
  LET maxTimer == MathMax([k \in DOMAIN data |-> data[k].timer])
  IN IF addTime /\ ~maxTimer.infinite /\ maxTimer.value > 0
       THEN CeilMinutes(maxTimer.value) + minutes
       ELSE minutes

\* fetchStatus(): the initial fetch and setInterval(fetchStatus, 5000)
fetchStatus ==
  /\ ~ui.poll
  /\ ui' = [ui EXCEPT !.poll = TRUE, !.polled = ui.actions]
  /\ UNCHANGED <<http, appliance, chain, INSTANCES, sessionCache, now, calls>>

\* fetchStatus, after res.json()
StatusFetched(res) ==
  /\ ui.poll
  /\ ui' = IF res.body.success
             THEN updateUI([ui EXCEPT !.poll = FALSE, !.polled = 0], res.body.instances)
             ELSE showError([ui EXCEPT !.poll = FALSE, !.polled = 0],
                            ErrorOr(res.body, <<"Failed to fetch status">>))
  /\ UNCHANGED <<http, appliance, chain, INSTANCES, sessionCache, now, calls>>

\* fetchStatus: catch (err)
StatusFetchFails(err) ==
  /\ ui.poll
  /\ ui' = showError([ui EXCEPT !.poll = FALSE, !.polled = 0],
                      <<"Connection error: ">> \o err)
  /\ UNCHANGED <<http, appliance, chain, INSTANCES, sessionCache, now, calls>>

\* The click on Enable All: enableBlocking(), up to its fetch.
enableBlocking ==
  /\ ui.enableBtn = "block"
  /\ ui.action = Null
  /\ ui.actions < MaxActions
  /\ ui' = [ui EXCEPT !.actions = @ + 1,
                      !.action = [kind |-> "enable", url |-> <<"/api/enable">>,
                                  minutes |-> 0, totalMinutes |-> 0,
                                  data |-> ui.instancesData]]
  /\ UNCHANGED <<http, appliance, chain, INSTANCES, sessionCache, now, calls>>

\* The click on a duration button: disableBlocking(minutes, allDisabled), up
\* to its fetch.  History: minutes and data, the status the click found.
disableBlocking(minutes) ==
  LET totalMinutes == TotalMinutes(ui.instancesData, minutes, AllDisabled(ui.instancesData))
  IN /\ ui.action = Null
     /\ ui.actions < MaxActions
     /\ ui' = [ui EXCEPT !.actions = @ + 1,
                         !.action = [kind |-> "disable",
                                     url |-> <<"/api/disable/", totalMinutes>>,
                                     minutes |-> minutes, totalMinutes |-> totalMinutes,
                                     data |-> ui.instancesData]]
     /\ UNCHANGED <<http, appliance, chain, INSTANCES, sessionCache, now, calls>>

\* enableBlocking / disableBlocking, after res.json()
ActionFetched(res) ==
  LET fallback == IF ui.action.kind = "enable" THEN <<"Failed to enable">>
                                               ELSE <<"Failed to disable">>
      done == [ui EXCEPT !.action = Null]
  IN /\ ui.action # Null
     /\ res \in ActionAnswers(ui.action)
     /\ ui' = IF res.body.success
                THEN updateUI([done EXCEPT !.last = [action |-> ui.action, response |-> res,
                                                     shown |-> Null]],
                              res.body.instances)
                ELSE showError([done EXCEPT !.poll = TRUE, !.polled = ui.actions,
                                            !.last = [action |-> ui.action, response |-> res,
                                                      shown |-> ErrorOr(res.body, fallback)]],
                               ErrorOr(res.body, fallback))
     /\ UNCHANGED <<http, appliance, chain, INSTANCES, sessionCache, now, calls>>

\* enableBlocking / disableBlocking: catch (err)
ActionFetchFails(err) ==
  LET message == <<"Connection error: ">> \o err IN
  /\ ui.action # Null
  /\ ui' = showError([ui EXCEPT !.action = Null, !.poll = TRUE, !.polled = ui.actions,
                                !.last = [action |-> ui.action, response |-> Null,
                                          shown |-> message]],
                     message)
  /\ UNCHANGED <<http, appliance, chain, INSTANCES, sessionCache, now, calls>>

\* showError: setTimeout(() => { errorEl.style.display = 'none'; }, 5000)
HideError ==
  /\ ui.error # Null
  /\ ui' = [ui EXCEPT !.error = Null]
  /\ UNCHANGED <<http, appliance, chain, INSTANCES, sessionCache, now, calls>>

UiInit ==
  /\ INSTANCES = getInstances(MaxInstances)
  /\ sessionCache = <<>>
  /\ now = 0
  /\ calls = [c \in CallIds |-> IdleCall]
  /\ appliance = "validity"
  /\ chain = IdleChain
  /\ http = IdleHttp
  /\ ui = PageLoaded

UiNext ==
  \/ fetchStatus
  \/ \E res \in StatusAnswers : StatusFetched(res)
  \/ \E err \in FetchErrors : StatusFetchFails(err)
  \/ enableBlocking
  \/ \E minutes \in DurationButtons : disableBlocking(minutes)
  \/ ui.action # Null /\ \E res \in ActionAnswers(ui.action) : ActionFetched(res)
  \/ \E err \in FetchErrors : ActionFetchFails(err)
  \/ HideError

UiSpec == UiInit /\ [][UiNext]_vars

\* C25: the "Enable All" button is visible only when all instances in the
\* last applied status are disabled (blocking === false for every instance).
C25_EnableOnlyWhenAllDisabled ==
  ui.enableBtn = "block" =>
    \A k \in DOMAIN ui.instancesData : ui.instancesData[k].blocking = <<FALSE>>

\* The button is visible while the last applied status has one instance
\* disabled and the other enabled.
C25_ShownWhenOneDisabled ==
  /\ ui.enableBtn = "block"
  /\ \E k \in DOMAIN ui.instancesData : ui.instancesData[k].blocking = <<FALSE>>
  /\ \E k \in DOMAIN ui.instancesData : ui.instancesData[k].blocking = <<TRUE>>

\* The last action got a response in which an instance's entry has an error.
ActionFailedOnAnInstance ==
  /\ ui.last # Null
  /\ ui.last.response # Null
  /\ Has(ui.last.response.body, "instances")
  /\ \E k \in DOMAIN ui.last.response.body.instances :
       ui.last.response.body.instances[k].error # Null

\* C26: when an enable or disable action fails on an instance (its entry in
\* the action response has a non-null error), the page shows a transient
\* error message for it: showError was called while the response was handled.
C26_ActionFailureShown ==
  ActionFailedOnAnInstance => ui.last.shown # Null

\* The service answered POST /api/enable with 200 and success true although
\* the write failed on one instance.
C26_FailureAnsweredAsSuccess ==
  /\ Handling("POST", "/api/enable")
  /\ http.state = "answered"
  /\ http.response.status = 200 /\ http.response.body.success
  /\ \E i \in Idx : http.response.body.instances[i].error # Null

\* The largest timer in a status is T.
LargestTimer(data, T) ==
  /\ \E k \in DOMAIN data : data[k].timer = T
  /\ \A k \in DOMAIN data : data[k].timer <= T

\* n = ceil(T / 60)
IsCeilMinutes(n, T) == n * 60 >= T /\ (n - 1) * 60 < T

\* C27: a duration button of m minutes pressed while every instance of the
\* last applied status has blocking === false and the largest timer is
\* T > 0 seconds requests /api/disable/(ceil(T/60) + m); in every other case
\* the request is /api/disable/m; the request carries minutes only, and what
\* the service sets from it is the absolute duration totalMinutes * 60.
C27_AddTimeInPageOnly ==
  /\ (ui.action # Null /\ ui.action.kind = "disable") =>
       LET data == ui.action.data
           m == ui.action.minutes
           requested == ui.action.url[2]
           adding == /\ \A k \in DOMAIN data : data[k].blocking = <<FALSE>>
                     /\ \E k \in DOMAIN data : LargestTimer(data, data[k].timer)
                                               /\ data[k].timer > 0
       IN /\ ui.action.url[1] = "/api/disable/"
          /\ adding => \E k \in DOMAIN data :
                         /\ LargestTimer(data, data[k].timer)
                         /\ IsCeilMinutes(requested - m, data[k].timer)
          /\ ~adding => requested = m
  /\ (ui.last # Null /\ ui.last.action.kind = "disable" /\ ui.last.response # Null
        /\ Has(ui.last.response.body, "instances")) =>
       \A k \in DOMAIN ui.last.response.body.instances :
         LET entry == ui.last.response.body.instances[k]
         IN entry.error = Null => entry.timer = ui.last.action.url[2] * 60

\* The 30 minutes button was pressed while both instances were disabled, the
\* largest timer being 90 seconds: the request is /api/disable/32.
C27_Witness ==
  /\ ui.action # Null /\ ui.action.kind = "disable" /\ ui.action.minutes = 30
  /\ DOMAIN ui.action.data = 1..2
  /\ \A k \in 1..2 : ui.action.data[k].blocking = <<FALSE>>
  /\ LargestTimer(ui.action.data, 90)
  /\ ui.action.url = <<"/api/disable/", 32>>

(***************************************************************************)
(* What the service writes out: the console, and the bodies it sends.      *)
(* A text is a sequence of chunks, the literal parts and the values        *)
(* interpolated between them.                                              *)
(***************************************************************************)
\* Mutant of AuthFailureLog: the line also names the password that was
\* refused.
AuthFailureLogWithPassword(instance, res) ==
  [ text |-> <<"Auth failed for ", instance.name, " with ", instance.password, ":">>,
    object |-> [status |-> res.status, response |-> res.data] ]

\* authenticate: console.error(`Auth failed for ${instance.name}:`,
\* { status: res.status, response: res.data })
AuthFailureLog(instance, res) ==
  [ text |-> <<"Auth failed for ", instance.name, ":">>,
    object |-> [status |-> res.status, response |-> res.data] ]

\* server.listen: the lines logged at startup.
StartupLog ==
  { [text |-> <<"Managing ", ToString(N), " Pi-hole instance(s):">>, object |-> Null] }
    \cup { [text |-> <<"  - ", INSTANCES[i].name, ": ", INSTANCES[i].url>>, object |-> Null] :
             i \in Idx }

\* The login answer authenticate refuses.
Refusal == Response(401, [session |-> [valid |-> FALSE]])

\* The lines on the console so far: the startup lines, and one line for each
\* login that was refused.
Console ==
  StartupLog \cup
    { AuthFailureLog(INSTANCES[i], Refusal) :
        i \in { j \in Idx : \E c \in Started : Task(c, j).fault = "auth" } }

\* A text has the chunk.
InText(text, chunk) == \E k \in DOMAIN text : text[k] = chunk

\* An entry of a JSON response has the value, as a field or in a text.
InEntry(entry, value) ==
  \/ "password" \in DOMAIN entry
  \/ entry.name = value
  \/ Has(entry, "url") /\ entry.url = value
  \/ entry.error # Null /\ InText(entry.error, value)

\* A body the service answered with (a page or a JSON document) has the
\* value.
InBody(body, value) ==
  \/ Has(body, "password")
  \/ Has(body, "instanceNames") /\ InText(body.instanceNames, value)
  \/ Has(body, "instances") /\ Has(body, "success")
       /\ \E k \in DOMAIN body.instances : InEntry(body.instances[k], value)
  \/ Has(body, "error") /\ Has(body, "success") /\ InText(body.error, value)

\* A console line has the value.
InLine(line, value) ==
  \/ InText(line.text, value)
  \/ Has(line.object, "password")
  \/ Has(line.object, "response") /\ Has(line.object.response, "password")

\* C28: an instance's password is sent only as the body of that instance's
\* login POST: no console line, no page and no JSON response of the service
\* has it, and no other body sent to an appliance has it, failed logins
\* included.
C28_PasswordNotExposed ==
  \A i \in Idx :
    LET password == INSTANCES[i].password
    IN /\ LoginBody(INSTANCES[i]) = [password |-> password]
       /\ \A line \in Console : ~InLine(line, password)
       /\ http.response # Null => ~InBody(http.response.body, password)
       /\ ~InBody(StatusPage.body, password)
       /\ \A c \in SetCalls :
            ~Has(WriteBody(calls[c].enabled, calls[c].timerSeconds), "password")

\* The login of the first instance was refused: the console has the line of
\* the failure, and GET /api/status was answered with the instance's error.
C28_Witness ==
  /\ Handling("GET", "/api/status") /\ http.state = "answered"
  /\ Task(http.call, 1).fault = "auth"
  /\ AuthFailureLog(INSTANCES[1], Refusal) \in Console
  /\ http.response.body.instances[1].error = <<"Authentication failed for ", "Primary">>

(***************************************************************************)
(* One instance, on an appliance that may report a timer below zero.       *)
(***************************************************************************)
TimerInit ==
  /\ INSTANCES = getInstances(1)
  /\ sessionCache = <<>>
  /\ now = 0
  /\ calls = [c \in CallIds |-> IdleCall]
  /\ appliance = "negativetimer"
  /\ chain = IdleChain
  /\ http = IdleHttp
  /\ ui = PageLoaded

TimerSpec == TimerInit /\ [][Next]_vars

\* The InstanceStatus operation (c, i) produced.
StatusOf(c, i) == Task(c, i).out.value

\* C29: every InstanceStatus produced by getInstanceStatus has a non-null
\* error exactly when blocking is null; with an error, timer, totalQueries,
\* blockedQueries and percentBlocked are 0; without one, blocking is the
\* boolean (upstream blocking = 'enabled') and timer >= 0.
C29_StatusWellFormed ==
  \A c \in StatusCalls : \A i \in Idx :
    Settled(Task(c, i)) =>
      /\ (StatusOf(c, i).error # Null) <=> (StatusOf(c, i).blocking = Null)
      /\ StatusOf(c, i).error # Null =>
           /\ StatusOf(c, i).timer = 0
           /\ StatusOf(c, i).totalQueries = 0
           /\ StatusOf(c, i).blockedQueries = 0
           /\ StatusOf(c, i).percentBlocked = 0
      /\ StatusOf(c, i).error = Null =>
           /\ StatusOf(c, i).blocking =
                << Has(Task(c, i).b.data, "blocking")
                     /\ Task(c, i).b.data.blocking = "enabled" >>
           /\ StatusOf(c, i).timer >= 0

\* C29 without its last conjunct: what holds of every InstanceStatus.
C29_ErrorIffNoBlocking ==
  \A c \in StatusCalls : \A i \in Idx :
    Settled(Task(c, i)) =>
      /\ (StatusOf(c, i).error # Null) <=> (StatusOf(c, i).blocking = Null)
      /\ StatusOf(c, i).error # Null =>
           /\ StatusOf(c, i).timer = 0
           /\ StatusOf(c, i).totalQueries = 0
           /\ StatusOf(c, i).blockedQueries = 0
           /\ StatusOf(c, i).percentBlocked = 0
      /\ StatusOf(c, i).error = Null =>
           /\ StatusOf(c, i).blocking =
                << Has(Task(c, i).b.data, "blocking")
                     /\ Task(c, i).b.data.blocking = "enabled" >>
           /\ StatusOf(c, i).timer = OrZero(Task(c, i).b.data, "timer")

\* An InstanceStatus without an error reports the timer -1 the appliance
\* answered.
C29_NegativeTimerReported ==
  \E c \in StatusCalls : \E i \in Idx :
    /\ Settled(Task(c, i))
    /\ StatusOf(c, i).error = Null
    /\ StatusOf(c, i).timer = -1

\* Operation (c, i) is answered 401 in this step and invalidates (the one
\* place its retry parameter goes from true to false).
Invalidates(c, i) ==
  Task(c, i).retry /\ ~calls'[c].tasks[i].retry

\* The store holds a valid credential for instance i that is not the one
\* operation (c, i) made its requests with: a newer one, stored by another
\* operation's login.
NewerCredentialStored(c, i) ==
  /\ Cached(i)
  /\ CacheValid(sessionCache, now, INSTANCES[i])
  /\ Task(c, i).session # Null
  /\ Entry(i).session # Task(c, i).session

\* C31, as a step: when an operation that used credential S1 is answered 401
\* while the store holds a newer valid credential S2 of a concurrent
\* operation, its invalidation leaves S2 in the store and its retry goes on
\* with S2 without a login.
C31_InvalidationStep ==
  \A c \in Started : \A i \in Idx :
    (Invalidates(c, i) /\ NewerCredentialStored(c, i)) =>
      /\ INSTANCES[i].url \in DOMAIN sessionCache'
      /\ sessionCache'[INSTANCES[i].url] = Entry(i)
      /\ calls'[c].tasks[i].session = Entry(i).session
      /\ calls'[c].tasks[i].logins = Task(c, i).logins

\* C31: a 401-triggered invalidation removes only the credential that was
\* rejected: a newer credential stored meanwhile by a concurrent operation
\* on the instance stays in the store and is reused by the retry.
C31_InvalidatesOnlyRejected == [][C31_InvalidationStep]_vars

\* An operation's retry is posting a login of its own while a concurrent
\* operation on the instance works with a credential it logged in for after
\* its own 401, and the store has no entry for the instance.
C31_NewerCredentialGone ==
  \E a \in Started, b \in Started : \E i \in Idx :
    /\ a # b
    /\ ~Task(a, i).retry /\ Task(a, i).pc = "login"
    /\ ~Task(b, i).retry /\ Task(b, i).login # Null /\ Task(b, i).session # Null
    /\ Task(b, i).pc # "done"
    /\ ~Cached(i)

\* In this step the login of operation (c, i) is answered with a refusal.
Refused(c, i) ==
  /\ Task(c, i).pc = "login"
  /\ calls'[c].tasks[i].pc = "done" /\ calls'[c].tasks[i].fault = "auth"

\* C32, as a step: when a login's refusal is processed while the store holds
\* a valid credential for the instance (stored, since this login missed the
\* cache, by an overlapping login that succeeded), the credential is still
\* in the store afterwards.
C32_RefusalStep ==
  \A c \in Started : \A i \in Idx :
    (Refused(c, i) /\ Cached(i) /\ CacheValid(sessionCache, now, INSTANCES[i])) =>
      /\ INSTANCES[i].url \in DOMAIN sessionCache'
      /\ sessionCache'[INSTANCES[i].url] = Entry(i)

\* C32: a failed login never removes a valid credential stored by a
\* concurrent successful login: of two overlapping authenticate calls that
\* both miss the cache, the one whose failure is processed after the other
\* has stored its credential leaves that credential in the store.
C32_FailedLoginKeepsCredential == [][C32_RefusalStep]_vars

\* One operation ended on a refused login; the overlapping one logged in, was
\* never answered 401 and is still making its requests with the credential
\* it stored, and the store has no entry for the instance.
C32_StoredCredentialGone ==
  \E a \in Started, b \in Started : \E i \in Idx :
    /\ a # b
    /\ Task(a, i).pc = "done" /\ Task(a, i).fault = "auth"
    /\ Task(b, i).retry /\ Task(b, i).login # Null /\ Task(b, i).session # Null
    /\ Task(b, i).pc \notin {"login", "done"}
    /\ ~Cached(i)

\* The request is GET /api/status, POST /api/enable, or POST
\* /api/disable/:minutes with minutes in range: the API routes that await a
\* fan-out.
ApiCall ==
  /\ http.state # "idle"
  /\ \/ Route(http.request) \in {"apiStatus", "apiEnable"}
     \/ /\ Route(http.request) = "apiDisable"
        /\ ~DurationInvalid(parseInt(http.request.path.rest))

\* C33: GET /api/status, POST /api/enable and POST /api/disable/:minutes
\* with a valid duration never take the handler's 500 / success:false
\* branch: the fan-out they await never rejects, so the answer is always
\* HTTP 200 with success true and one entry per instance, even when the
\* operation failed on every instance.
C33_ApiAlwaysSuccess ==
  /\ \A c \in CallIds : Ended(c) => calls[c].state = "returned"
  /\ ApiCall =>
       /\ http.call \in CallIds
       /\ http.state = "answered" =>
            /\ http.response.status = 200
            /\ http.response.body.success = TRUE
            /\ DOMAIN http.response.body.instances = Idx
            /\ http.response.body.instances = calls[http.call].result
  /\ http.state = "answered" => http.response.status # 500

\* POST /api/disable/:minutes was answered 200 with success true while the
\* write had failed on every instance.
C33_Witness ==
  /\ ApiCall
  /\ http.state = "answered"
  /\ Route(http.request) = "apiDisable"
  /\ http.response.status = 200
  /\ http.response.body.success = TRUE
  /\ \A i \in Idx : http.response.body.instances[i].error # Null

\* GET /api/status was answered 200 with success true while the read had
\* failed on every instance.
C33_StatusAllFailed ==
  /\ http.state = "answered"
  /\ Route(http.request) = "apiStatus"
  /\ http.response.status = 200
  /\ http.response.body.success = TRUE
  /\ \A i \in Idx : http.response.body.instances[i].error # Null

\* In this step the response of a status poll is processed, and the poll had
\* been issued before the click of an action whose response, a successful
\* one, the page has already applied.
StalePollArrives ==
  /\ ui.poll /\ ~ui'.poll
  /\ ui.action = Null
  /\ ui.last # Null
  /\ ui.last.response # Null
  /\ ui.last.response.body.success
  /\ ui.polled < ui.actions

\* C34, as a step: the response of a status poll issued before an action,
\* arriving after the action's response, leaves the displayed instance data
\* as the action's response set it.
C34_StalePollStep ==
  StalePollArrives =>
    /\ ui'.instancesData = ui.instancesData
    /\ ui'.enableBtn = ui.enableBtn
    /\ ui'.durationLabel = ui.durationLabel

\* C34: the page's displayed instance data always comes from the response of
\* the most recently issued request: a status poll issued before an
\* enable/disable action whose response arrives after the action's does not
\* overwrite the action's result.
C34_LatestRequestWins == [][C34_StalePollStep]_vars

\* The action's response has been applied and shows every instance disabled,
\* while the poll issued before the click is still in flight.
C34_StalePollPending ==
  /\ ui.poll /\ ui.action = Null /\ ui.last # Null
  /\ ui.last.response # Null /\ ui.last.response.body.success
  /\ ui.polled < ui.actions
  /\ ui.last.action.kind = "disable"
  /\ AllDisabled(ui.instancesData)

\* The outbound request carries a secret: the password in its body, or a
\* session in its X-FTL-SID / X-FTL-CSRF headers.
CarriesSecret(ch) ==
  \/ Has(ch.body, "password")
  \/ Has(ch.options.headers, "XFTLSID")
  \/ Has(ch.options.headers, "XFTLCSRF")

\* C35: secrets are sent only to the configured instance: every outbound
\* request carrying the login password body or the X-FTL-SID / X-FTL-CSRF
\* headers, the requests made while following redirects included, targets a
\* URL whose origin is the instance's configured base URL.
C35_SecretsOnlyToInstance ==
  (chain.state = "pending" /\ CarriesSecret(chain)) => chain.url.origin = chain.base

\* The login POST, redirected to an absolute URL on another host, is in
\* flight to that host with the password as its body.
C35_PasswordSentElsewhere ==
  /\ chain.state = "pending"
  /\ chain.base = "https://pihole1.local"
  /\ chain.url.origin = "https://pihole.example"
  /\ chain.options.method = "POST"
  /\ chain.body = [password |-> "pw1"]

\* Redirects to a path on the same host keep the request on the instance.
C35_SameHostRedirectStays ==
  /\ chain.state = "pending"
  /\ Len(chain.followed) >= 1
  /\ chain.url.origin = chain.base
  /\ CarriesSecret(chain)

=============================================================================
